---- MODULE Spec2Model ----
(***************************************************************************)
(* Model of the vector-tile pipeline of meh-utils-rust: the layer registry *)
(* (Collections), the LOD projector (ArmaMaxLodTileProjection), the clip   *)
(* operator, the layer visibility rule (find_lod_layers), the contour      *)
(* sub-layer fill (fill_contour_layers), the tile encoder (create_tile,    *)
(* build_lod_vector_tiles) and the LOD loop (build_vector_tiles).          *)
(***************************************************************************)
EXTENDS Integers, Sequences, FiniteSets, TLC

(***************************************************************************)
(* Bounds of the model.                                                    *)
(***************************************************************************)
\* largest max_lod handed to build_vector_tiles
MaxLod == 2
\* longest feature sequence of the base `contours` layer in an input registry
MaxBase == 3
\* largest max_lod handed to ArmaMaxLodTileProjection::new in the projector's own runs
MaxProjLod == 3
\* decrease_lod calls made after the projector has reached LOD 0
MaxFailedCalls == 2
\* largest column and row index of the tiles built in single calls
MaxTile == 1
\* the longest feature collection handed to simplify and remove_empty
MaxFeatures == 3
\* the largest number of columns, and of rows, of a DEM raster
MaxDemSide == 6
\* the most cells in a single-row DEM raster handed to build_contours
MaxContourCells == 4
\* the largest world size handed to calc_max_lod in single calls
MaxWorldSize == 2048
\* the most entries of a directory listing handed to load_geo_jsons
MaxFiles == 2
\* the most lines of a base `contours` layer of contour lines
MaxContourLines == 3
\* the most layers of a registry whose simplification tasks are interleaved
MaxTaskLayers == 3

(***************************************************************************)
(* Program constants.                                                      *)
(***************************************************************************)
DEFAULT_EXTENT == 4096
TILE_SIZE == 4096
\* significand width of MvtGeoFloatType = f32
F32_MANTISSA_BITS == 24
\* width of `tiles_per_dimension: u16`
U16_BITS == 16
\* the factor handed to geo_clipper's intersection
CLIPPER_FACTOR == 100
\* s.minzoom.unwrap_or(0), s.maxzoom.unwrap_or(255)
DEFAULT_MINZOOM == 0
DEFAULT_MAXZOOM == 255

None == [tag |-> "None"]
Some(v) == [tag |-> "Some", val |-> v]
Ok(v) == [tag |-> "Ok", val |-> v]
Err(msg) == [tag |-> "Err", msg |-> msg]

(***************************************************************************)
(* MvtGeoFloatType = f32.  A finite f32 is the dyadic rational m * 2^e,    *)
(* kept normalised (m odd, or m = 0 and e = 0), with |m| < 2^24.  Every    *)
(* arithmetic operation computes the exact result and rounds it to the     *)
(* nearest representable value, ties to even.                              *)
(***************************************************************************)
Abs(n) == IF n < 0 THEN -n ELSE n
Sign(n) == IF n < 0 THEN -1 ELSE 1
Min2(a, b) == IF a <= b THEN a ELSE b

RECURSIVE Norm(_, _)
Norm(m, e) ==
    IF m = 0 THEN [m |-> 0, e |-> 0]
    ELSE IF m % 2 = 0 THEN Norm(m \div 2, e + 1)
    ELSE [m |-> m, e |-> e]

RECURSIVE ExcessBits(_)
ExcessBits(a) == IF a < 2^F32_MANTISSA_BITS THEN 0 ELSE 1 + ExcessBits(a \div 2)

RoundF32(m, e) ==
    LET a == Abs(m)
        k == ExcessBits(a)
    IN  IF k = 0 THEN Norm(m, e)
        ELSE LET q == a \div (2^k)
                 r == a % (2^k)
                 half == 2^(k - 1)
                 up == r > half \/ (r = half /\ q % 2 = 1)
             IN  Norm(Sign(m) * (IF up THEN q + 1 ELSE q), e + k)

\* `n as f32`
FromInt(n) == RoundF32(n, 0)

\* the integer a * 2^(a.e - e) for e <= a.e; 0 has every exponent
Aligned(a, e) == IF a.m = 0 THEN 0 ELSE a.m * 2^(a.e - e)

FMul(a, b) == RoundF32(a.m * b.m, a.e + b.e)

FSub(a, b) ==
    LET e == Min2(a.e, b.e)
    IN  RoundF32(Aligned(a, e) - Aligned(b, e), e)

FAdd(a, b) ==
    IF a.m = 0 THEN b
    ELSE IF b.m = 0 THEN a
    ELSE LET e == Min2(a.e, b.e)
         IN  RoundF32(Aligned(a, e) + Aligned(b, e), e)

\* long division: quotient bits until the quotient has 26 bits, then a sticky bit
RECURSIVE DivBits(_, _, _, _)
DivBits(q, r, b, s) ==
    IF q >= 2^(F32_MANTISSA_BITS + 1) THEN [q |-> q, r |-> r, s |-> s]
    ELSE IF 2 * r >= b THEN DivBits(2 * q + 1, 2 * r - b, b, s + 1)
    ELSE DivBits(2 * q, 2 * r, b, s + 1)

\* a / b for b # 0
FDiv(a, b) ==
    IF a.m = 0 THEN [m |-> 0, e |-> 0]
    ELSE LET A == Abs(a.m)
             B == Abs(b.m)
             d == DivBits(A \div B, A % B, B, 0)
             sticky == IF d.r = 0 THEN 0 ELSE 1
         IN  RoundF32(Sign(a.m) * Sign(b.m) * (2 * d.q + sticky), a.e - b.e - d.s - 1)

FLe(a, b) == LET e == Min2(a.e, b.e) IN Aligned(a, e) <= Aligned(b, e)
FGe(a, b) == FLe(b, a)

\* f32::to_i32: truncation toward zero
ToI32(a) ==
    IF a.e >= 0 THEN a.m * 2^a.e
    ELSE Sign(a.m) * (Abs(a.m) \div 2^(-a.e))

(***************************************************************************)
(* Strings are sequences of characters, so that prefixes and number        *)
(* parsing are computed as the code computes them.                         *)
(***************************************************************************)
Digits == {"0", "1", "2", "3", "4", "5", "6", "7", "8", "9"}
DigitVal ==
    ("0" :> 0) @@ ("1" :> 1) @@ ("2" :> 2) @@ ("3" :> 3) @@ ("4" :> 4) @@
    ("5" :> 5) @@ ("6" :> 6) @@ ("7" :> 7) @@ ("8" :> 8) @@ ("9" :> 9)

starts_with(s, prefix) ==
    Len(s) >= Len(prefix) /\ SubSeq(s, 1, Len(prefix)) = prefix

strip_prefix(s, prefix) ==
    IF starts_with(s, prefix) THEN Some(SubSeq(s, Len(prefix) + 1, Len(s))) ELSE None

RECURSIVE DigitsValue(_, _)
DigitsValue(s, acc) ==
    IF s = << >> THEN acc ELSE DigitsValue(Tail(s), 10 * acc + DigitVal[Head(s)])

\* str::parse::<usize>: an optional `+` followed by at least one digit
parse_usize(s) ==
    LET body == IF s # << >> /\ Head(s) = "+" THEN Tail(s) ELSE s
    IN  IF body = << >> \/ \E i \in 1..Len(body) : body[i] \notin Digits
        THEN Err("invalid digit")
        ELSE Ok(DigitsValue(body, 0))

(***************************************************************************)
(* Layer names.                                                            *)
(***************************************************************************)
N_contours == <<"c", "o", "n", "t", "o", "u", "r", "s">>
N_mount == <<"m", "o", "u", "n", "t">>
N_locations == <<"l", "o", "c", "a", "t", "i", "o", "n", "s">>
N_foo == <<"f", "o", "o">>
N_bar == <<"b", "a", "r">>
N_house == <<"h", "o", "u", "s", "e">>
N_water == <<"w", "a", "t", "e", "r">>
N_railway == <<"r", "a", "i", "l", "w", "a", "y">>
N_powerline == <<"p", "o", "w", "e", "r", "l", "i", "n", "e">>
N_contours_slash == N_contours \o <<"/">>
\* `contours/<suffix>`
ContourLayer(suffix) == N_contours_slash \o suffix
\* `locations/<suffix>`
LocationLayer(suffix) == N_locations \o <<"/">> \o suffix

(***************************************************************************)
(* Geometry, features, feature collections, the layer registry.            *)
(* A geometry is [kind, coords]; the kinds modelled are Point (one         *)
(* coordinate), MultiPoint (any number), Rect (min, max), Line (start,     *)
(* end), LineString (its coordinates), Polygon (its exterior ring, closed, *)
(* no interior rings), MultiPolygon (a sequence of exterior rings) and     *)
(* MultiLineString (a sequence of line strings).                           *)
(***************************************************************************)
Coord(x, y) == [x |-> x, y |-> y]
Point(x, y) == [kind |-> "Point", coords |-> <<Coord(x, y)>>]
MultiPoint(cs) == [kind |-> "MultiPoint", coords |-> cs]
RectGeometry(a, b) == [kind |-> "Rect", coords |-> <<a, b>>]
Line(a, b) == [kind |-> "Line", coords |-> <<a, b>>]
LineString(cs) == [kind |-> "LineString", coords |-> cs]
Polygon(ring) == [kind |-> "Polygon", coords |-> ring]
MultiPolygon(rings) == [kind |-> "MultiPolygon", coords |-> rings]
MultiLineString(lines) == [kind |-> "MultiLineString", coords |-> lines]
Feature(g, props) == [geometry |-> g, properties |-> props]

\* geo::Rect::new: min and max are taken per axis
Rect_new(c1, c2) ==
    [min |-> Coord(IF FLe(c1.x, c2.x) THEN c1.x ELSE c2.x,
                   IF FLe(c1.y, c2.y) THEN c1.y ELSE c2.y),
     max |-> Coord(IF FLe(c1.x, c2.x) THEN c2.x ELSE c1.x,
                   IF FLe(c1.y, c2.y) THEN c2.y ELSE c1.y)]

\* Geometry::map_coords / map_coords_inplace
GeometryMapCoords(g, F(_)) ==
    IF g.kind \in {"MultiPolygon", "MultiLineString"}
    THEN [g EXCEPT !.coords = [i \in DOMAIN g.coords |->
                                  [j \in DOMAIN g.coords[i] |-> F(g.coords[i][j])]]]
    ELSE [g EXCEPT !.coords = [i \in DOMAIN g.coords |-> F(g.coords[i])]]

FeatureMapCoords(f, F(_)) ==
    [f EXCEPT !.geometry = GeometryMapCoords(f.geometry, F)]

FeatureCollectionMapCoords(fc, F(_)) ==
    [i \in DOMAIN fc |-> FeatureMapCoords(fc[i], F)]

CollectionsMapCoords(c, F(_)) ==
    [name \in DOMAIN c |-> FeatureCollectionMapCoords(c[name], F)]

(***************************************************************************)
(* The LOD projector.                                                      *)
(***************************************************************************)
ProjectionFactor(world_size, max_lod, tile_size) ==
    LET world_size_f32 == FromInt(world_size)
        tiles_per_dimension == 2^max_lod
        pixels == tiles_per_dimension * tile_size
    IN  FDiv(FromInt(pixels), world_size_f32)

\* a faulty projection that does not flip the y axis
ProjectCoord_NoFlip(c, world_size, factor) ==
    Coord(FMul(c.x, factor), FMul(c.y, factor))

ProjectCoord(c, world_size, factor) ==
    Coord(FMul(c.x, factor), FMul(FSub(FromInt(world_size), c.y), factor))

ArmaMaxLodTileProjection_new(collections, world_size, max_lod, tile_size) ==
    LET factor == ProjectionFactor(world_size, max_lod, tile_size)
    IN  [collections |-> CollectionsMapCoords(collections,
                            LAMBDA c : ProjectCoord(c, world_size, factor)),
         world_size |-> world_size,
         max_lod |-> max_lod,
         tile_size |-> tile_size,
         current_lod |-> max_lod]

\* a faulty halving that leaves y as it is
HalveCoord_OnlyX(c) == Coord(FDiv(c.x, FromInt(2)), c.y)

HalveCoord(c) == Coord(FDiv(c.x, FromInt(2)), FDiv(c.y, FromInt(2)))

\* the projector after the call, and the call's result
decrease_lod(self) ==
    LET halved == CollectionsMapCoords(self.collections, HalveCoord)
    IN  IF self.current_lod >= 1
        THEN [self |-> [self EXCEPT !.collections = halved,
                                    !.current_lod = self.current_lod - 1],
              ret |-> Ok(self.current_lod - 1)]
        ELSE [self |-> [self EXCEPT !.collections = halved],
              ret |-> Err("lod zero reached")]

get_lod(self) == self.current_lod
is_max_lod(self) == self.max_lod = self.current_lod

(***************************************************************************)
(* The clip operator.                                                      *)
(***************************************************************************)
\* a faulty clip that excludes the upper boundaries
ClipPoint_Exclusive(coords, rect) ==
    LET p == coords[1]
    IN  IF FGe(p.x, rect.min.x) /\ ~FGe(p.x, rect.max.x)
           /\ FGe(p.y, rect.min.y) /\ ~FGe(p.y, rect.max.y)
        THEN Some(coords)
        ELSE None

ClipPoint(coords, rect) ==
    LET p == coords[1]
    IN  IF FGe(p.x, rect.min.x) /\ FLe(p.x, rect.max.x)
           /\ FGe(p.y, rect.min.y) /\ FLe(p.y, rect.max.y)
        THEN Some(coords)
        ELSE None

\* the smallest exponent among the values of S other than 0
MinExp(S) ==
    LET exps == {a.e : a \in {b \in S : b.m # 0}}
    IN  IF exps = {} THEN 0 ELSE CHOOSE e \in exps : \A d \in exps : e <= d

\* geo's RobustKernel::orient2d: the exact sign of the determinant
orient2d(a, b, c) ==
    LET e == MinExp({a.x, a.y, b.x, b.y, c.x, c.y})
        det == (Aligned(a.x, e) - Aligned(c.x, e)) * (Aligned(b.y, e) - Aligned(c.y, e))
               - (Aligned(a.y, e) - Aligned(c.y, e)) * (Aligned(b.x, e) - Aligned(c.x, e))
    IN  IF det > 0 THEN "CounterClockwise"
        ELSE IF det < 0 THEN "Clockwise"
        ELSE "Collinear"

\* Rect intersects Rect and Rect intersects Coordinate, boundaries included
RectIntersects(r, s) ==
    /\ FLe(r.min.x, s.max.x) /\ FLe(s.min.x, r.max.x)
    /\ FLe(r.min.y, s.max.y) /\ FLe(s.min.y, r.max.y)

contains(rect, coord) ==
    /\ FGe(coord.x, rect.min.x)
    /\ FLe(coord.x, rect.max.x)
    /\ FGe(coord.y, rect.min.y)
    /\ FLe(coord.y, rect.max.y)

Collinear(a, b) == [tag |-> "Collinear", intersection |-> <<a, b>>]
SinglePoint(c, is_proper) ==
    [tag |-> "SinglePoint", intersection |-> c, is_proper |-> is_proper]

\* the match of collinear_intersection on which end points the other line's
\* bounds contain
CollinearMatch(p, q, q1, q2, p1, p2) ==
    IF q1 /\ q2 THEN Some(Collinear(q[1], q[2]))
    ELSE IF p1 /\ p2 THEN Some(Collinear(p[1], p[2]))
    ELSE IF q1 /\ ~q2 /\ p1 /\ ~p2 /\ q[1] = p[1] THEN Some(SinglePoint(q[1], FALSE))
    ELSE IF q1 /\ p1 THEN Some(Collinear(q[1], p[1]))
    ELSE IF q1 /\ ~q2 /\ ~p1 /\ p2 /\ q[1] = p[2] THEN Some(SinglePoint(q[1], FALSE))
    ELSE IF q1 /\ p2 THEN Some(Collinear(q[1], p[2]))
    ELSE IF ~q1 /\ q2 /\ p1 /\ ~p2 /\ q[2] = p[1] THEN Some(SinglePoint(q[2], FALSE))
    ELSE IF q2 /\ p1 THEN Some(Collinear(q[2], p[1]))
    ELSE IF ~q1 /\ q2 /\ ~p1 /\ p2 /\ q[2] = p[2] THEN Some(SinglePoint(q[2], FALSE))
    ELSE IF q2 /\ p2 THEN Some(Collinear(q[2], p[2]))
    ELSE None

\* geo's collinear_intersection(p, q); a line is <<start, end>>
collinear_intersection(p, q) ==
    CollinearMatch(p, q,
                   contains(Rect_new(p[1], p[2]), q[1]), contains(Rect_new(p[1], p[2]), q[2]),
                   contains(Rect_new(q[1], q[2]), p[1]), contains(Rect_new(q[1], q[2]), p[2]))

\* geo's proper_intersection(p, q): the crossing point of two lines that
\* cross in their interiors.  The exact point is computed and rounded once.
proper_intersection(p, q) ==
    LET e == MinExp({p[1].x, p[1].y, p[2].x, p[2].y, q[1].x, q[1].y, q[2].x, q[2].y})
        px == Aligned(p[1].x, e)
        py == Aligned(p[1].y, e)
        dpx == Aligned(p[2].x, e) - px
        dpy == Aligned(p[2].y, e) - py
        dqx == Aligned(q[2].x, e) - Aligned(q[1].x, e)
        dqy == Aligned(q[2].y, e) - Aligned(q[1].y, e)
        w == dpx * dqy - dpy * dqx
        t == (Aligned(q[1].x, e) - px) * dqy - (Aligned(q[1].y, e) - py) * dqx
    IN  Coord(FDiv(RoundF32(px * w + t * dpx, e), RoundF32(w, 0)),
              FDiv(RoundF32(py * w + t * dpy, e), RoundF32(w, 0)))

\* line_intersection once the four orientations are known
IntersectionByOrientation(p, q, p_q1, p_q2, q_p1, q_p2) ==
    IF p_q1 = p_q2 /\ p_q1 # "Collinear" THEN None
    ELSE IF q_p1 = q_p2 /\ q_p1 # "Collinear" THEN None
    ELSE IF {p_q1, p_q2, q_p1, q_p2} = {"Collinear"} THEN collinear_intersection(p, q)
    ELSE IF "Collinear" \in {p_q1, p_q2, q_p1, q_p2}
    THEN Some(SinglePoint(
             IF p[1] = q[1] \/ p[1] = q[2] THEN p[1]
             ELSE IF p[2] = q[1] \/ p[2] = q[2] THEN p[2]
             ELSE IF p_q1 = "Collinear" THEN q[1]
             ELSE IF p_q2 = "Collinear" THEN q[2]
             ELSE IF q_p1 = "Collinear" THEN p[1]
             ELSE p[2],
             FALSE))
    ELSE Some(SinglePoint(proper_intersection(p, q), TRUE))

\* geo::algorithm::line_intersection::line_intersection(p, q)
line_intersection(p, q) ==
    IF ~RectIntersects(Rect_new(p[1], p[2]), Rect_new(q[1], q[2])) THEN None
    ELSE IntersectionByOrientation(p, q,
                                   orient2d(p[1], p[2], q[1]), orient2d(p[1], p[2], q[2]),
                                   orient2d(q[1], q[2], p[1]), orient2d(q[1], q[2], p[2]))

\* Rect::to_polygon().exterior(): left, top, right and bottom edge in turn
RectToPolygon(rect) ==
    <<rect.min, Coord(rect.min.x, rect.max.y), rect.max,
      Coord(rect.max.x, rect.min.y), rect.min>>

\* LineString::lines()
RingLines(ring) == [i \in 1..(Len(ring) - 1) |-> <<ring[i], ring[i + 1]>>]

\* i1.euclidean_distance(s) < i2.euclidean_distance(s), decided on the exact
\* squared distances
DistanceLess(i1, i2, s) ==
    LET e == MinExp({i1.x, i1.y, i2.x, i2.y, s.x, s.y})
        Sq(c) == (Aligned(c.x, e) - Aligned(s.x, e)) * (Aligned(c.x, e) - Aligned(s.x, e))
                 + (Aligned(c.y, e) - Aligned(s.y, e)) * (Aligned(c.y, e) - Aligned(s.y, e))
    IN  Sq(i1) < Sq(i2)

\* the .val of every Some of the sequence
SomeValues(found) ==
    LET Pick(some) == [i \in DOMAIN some |-> some[i].val]
    IN  Pick(SelectSeq(found, LAMBDA r : r.tag = "Some"))

\* the coordinates of the single-point intersections
SinglePointCoordinates(intersections) ==
    LET Pick(single_points) == [i \in DOMAIN single_points |-> single_points[i].intersection]
    IN  Pick(SelectSeq(intersections, LAMBDA i : i.tag = "SinglePoint"))

\* the match of Line::clip on the intersections found
ClipLineMatch(self, rect, collinears, single_point_coordinates) ==
    IF collinears # << >> THEN Some(collinears[1].intersection)
    ELSE IF single_point_coordinates = << >>
    THEN IF contains(rect, self[1]) /\ contains(rect, self[2]) THEN Some(self) ELSE None
    ELSE IF Len(single_point_coordinates) = 1
    THEN IF contains(rect, self[1])
         THEN Some(<<self[1], single_point_coordinates[1]>>)
         ELSE Some(<<single_point_coordinates[1], self[2]>>)
    ELSE IF DistanceLess(single_point_coordinates[1], single_point_coordinates[2], self[1])
    THEN Some(<<single_point_coordinates[1], single_point_coordinates[2]>>)
    ELSE Some(<<single_point_coordinates[2], single_point_coordinates[1]>>)

LineIntersections(self, rect) ==
    LET box_lines == RingLines(RectToPolygon(rect))
    IN  SomeValues([i \in DOMAIN box_lines |-> line_intersection(box_lines[i], self)])

\* impl Clip for Line; self is <<start, end>>
ClipLine(self, rect) ==
    LET Match(intersections) ==
            ClipLineMatch(self, rect,
                          SelectSeq(intersections, LAMBDA i : i.tag = "Collinear"),
                          SinglePointCoordinates(intersections))
    IN  Match(LineIntersections(self, rect))

\* geo_clipper scales every coordinate by the factor into Clipper's integers
\* and the result back; the product is exact in f64
ClipperInt(x) == ToI32(Norm(x.m * CLIPPER_FACTOR, x.e))
FromClipper(n) == FDiv(FromInt(n), FromInt(CLIPPER_FACTOR))

SetMin(S) == CHOOSE m \in S : \A n \in S : m <= n
SetMax(S) == CHOOSE m \in S : \A n \in S : m >= n

\* impl Clip for Polygon, for a ring that is an axis-parallel rectangle: the
\* intersection computed by Clipper is the common rectangle, and nothing when
\* it has no area.  A ring is written from its lower left corner in the order
\* of Rect::to_polygon.
ClipPolygon(ring, rect) ==
    IF ring = << >> THEN None
    ELSE LET xs == {ClipperInt(ring[i].x) : i \in DOMAIN ring}
             ys == {ClipperInt(ring[i].y) : i \in DOMAIN ring}
             lo_x == SetMax({SetMin(xs), ClipperInt(rect.min.x)})
             hi_x == SetMin({SetMax(xs), ClipperInt(rect.max.x)})
             lo_y == SetMax({SetMin(ys), ClipperInt(rect.min.y)})
             hi_y == SetMin({SetMax(ys), ClipperInt(rect.max.y)})
         IN  IF lo_x >= hi_x \/ lo_y >= hi_y THEN None
             ELSE Some(<<RectToPolygon(
                            [min |-> Coord(FromClipper(lo_x), FromClipper(lo_y)),
                             max |-> Coord(FromClipper(hi_x), FromClipper(hi_y))])>>)

\* filter_map(|pg| pg.clip(rect)) followed by flatten()
RECURSIVE ClipPolygons(_, _)
ClipPolygons(rings, rect) ==
    IF rings = << >> THEN << >>
    ELSE LET Flat(r) == IF r.tag = "Some" THEN r.val ELSE << >>
         IN  Flat(ClipPolygon(Head(rings), rect)) \o ClipPolygons(Tail(rings), rect)

\* impl Clip for Geometry
GeometryClip(g, rect) ==
    LET AsPoint(r) ==
            IF r.tag = "Some" THEN Some([kind |-> "Point", coords |-> r.val]) ELSE None
        AsLine(r) == IF r.tag = "Some" THEN Some(Line(r.val[1], r.val[2])) ELSE None
        AsMultiPolygon(r) == IF r.tag = "Some" THEN Some(MultiPolygon(r.val)) ELSE None
    IN  IF g.kind = "Point" THEN AsPoint(ClipPoint(g.coords, rect))
        ELSE IF g.kind = "Line" THEN AsLine(ClipLine(g.coords, rect))
        ELSE IF g.kind = "Polygon" THEN AsMultiPolygon(ClipPolygon(g.coords, rect))
        ELSE IF g.kind = "MultiPolygon"
        THEN Some(MultiPolygon(ClipPolygons(g.coords, rect)))
        ELSE None

FeatureClip(f, rect) ==
    LET WithProperties(r) ==
            IF r.tag = "Some"
            THEN Some([geometry |-> r.val, properties |-> f.properties])
            ELSE None
    IN  WithProperties(GeometryClip(f.geometry, rect))

\* a faulty translation that leaves the feature where it is
with_offset_none(f, offset) == f

with_offset(f, offset) ==
    [geometry |-> GeometryMapCoords(f.geometry,
                     LAMBDA c : Coord(FSub(c.x, offset.x), FSub(c.y, offset.y))),
     properties |-> f.properties]

\* impl From<Feature> for mapbox_vector_tile::Feature
IntoMvtFeature(f) ==
    [geometry |-> GeometryMapCoords(f.geometry,
                     LAMBDA c : Coord(ToI32(c.x), ToI32(c.y))),
     properties |-> f.properties]

(***************************************************************************)
(* The tile encoder.                                                       *)
(***************************************************************************)
to_layer(fc, name, tile_border, offset) ==
    LET Translated(kept) ==
            [i \in DOMAIN kept |-> IntoMvtFeature(with_offset(kept[i].val, offset))]
        clipped == [i \in DOMAIN fc |-> FeatureClip(fc[i], tile_border)]
    IN  [name |-> name,
         extent |-> DEFAULT_EXTENT,
         features |-> Translated(SelectSeq(clipped, LAMBDA r : r.tag = "Some"))]

TileOffset(col, row) ==
    Coord(FMul(FromInt(col), FromInt(DEFAULT_EXTENT)),
          FMul(FromInt(row), FromInt(DEFAULT_EXTENT)))

\* a faulty border that reaches one tile further to the right and down
TileBorder_TwoTiles(col, row) ==
    LET offset == TileOffset(col, row)
        extent == Coord(FromInt(2 * DEFAULT_EXTENT), FromInt(2 * DEFAULT_EXTENT))
    IN  Rect_new(offset, Coord(FAdd(offset.x, extent.x), FAdd(offset.y, extent.y)))

TileBorder(col, row) ==
    LET offset == TileOffset(col, row)
        extent == Coord(FromInt(DEFAULT_EXTENT), FromInt(DEFAULT_EXTENT))
    IN  Rect_new(offset, Coord(FAdd(offset.x, extent.x), FAdd(offset.y, extent.y)))

\* `keys` is the order in which the HashMap yields its entries
create_tile(col, row, collections, keys) ==
    Ok([layers |-> [i \in DOMAIN keys |->
                       to_layer(collections[keys[i]], keys[i],
                                TileBorder(col, row), TileOffset(col, row))]])

(***************************************************************************)
(* Layer visibility.  A layer setting is [layer, minzoom, maxzoom] with    *)
(* optional bounds; `keys` is the order in which the HashMap yields its    *)
(* keys.                                                                   *)
(***************************************************************************)
unwrap_or(opt, default) == IF opt.tag = "Some" THEN opt.val ELSE default

\* a faulty visibility test that looks at the name only
SettingMatches_NameOnly(s, k, lod) == s.layer = k

SettingMatches(s, k, lod) ==
    /\ s.layer = k
    /\ unwrap_or(s.minzoom, DEFAULT_MINZOOM) <= lod
    /\ unwrap_or(s.maxzoom, DEFAULT_MAXZOOM) >= lod

find_lod_layers(keys, lod, layer_settings) ==
    SelectSeq(keys, LAMBDA k :
        \E i \in DOMAIN layer_settings : SettingMatches(layer_settings[i], k, lod))

(***************************************************************************)
(* Contour sub-layer fill.                                                 *)
(***************************************************************************)
\* the interval of a layer name `contours/<N>`, None for every other name
ContourInterval(name) ==
    LET num_str == strip_prefix(name, N_contours_slash)
    IN  IF num_str.tag = "None" THEN None
        ELSE LET i == parse_usize(num_str.val)
             IN  IF i.tag = "Ok" THEN Some(i.val) ELSE None

\* features.iter().step_by(n): the elements at indices 0, n, 2n, ...
RECURSIVE step_by(_, _)
step_by(features, n) ==
    IF features = << >> THEN << >>
    ELSE <<Head(features)>>
         \o step_by(SubSeq(features, Min2(n, Len(features)) + 1, Len(features)), n)

\* pushes every interval-th contour feature into the layer `name`
\* (collections.get_mut(name).unwrap() is reached once per feature pushed)
FillOne(collections, contour_features, name, interval) ==
    LET pushed == step_by(contour_features, interval)
    IN  IF pushed = << >> THEN [tag |-> "Done", collections |-> collections]
        ELSE IF name \notin DOMAIN collections THEN [tag |-> "Panic"]
        ELSE [tag |-> "Done",
              collections |-> [collections EXCEPT ![name] = @ \o pushed]]

RECURSIVE FillAll(_, _, _)
FillAll(collections, contour_features, names) ==
    IF names = << >> THEN [tag |-> "Done", collections |-> collections]
    ELSE LET interval == ContourInterval(Head(names))
         IN  IF interval.tag = "None" \/ interval.val = 0
             THEN FillAll(collections, contour_features, Tail(names))
             ELSE LET one == FillOne(collections, contour_features, Head(names), interval.val)
                  IN  IF one.tag = "Panic" THEN one
                      ELSE FillAll(one.collections, contour_features, Tail(names))

\* the registry after the call and the call's result; tag Panic when it aborts
fill_contour_layers(lod_layer_names, collections) ==
    IF N_contours \notin DOMAIN collections
    THEN [tag |-> "Done", collections |-> collections,
          ret |-> Err("could not find 'contours' layer")]
    ELSE LET r == FillAll(collections, collections[N_contours], lod_layer_names)
         IN  IF r.tag = "Panic" THEN r
             ELSE [tag |-> "Done", collections |-> r.collections, ret |-> Ok("unit")]

(***************************************************************************)
(* Simplification.  geo's Simplify is the Ramer-Douglas-Peucker reduction; *)
(* distances are compared on their exact squares.  simplify_geo yields     *)
(* None for the other kinds (the geometry is kept as it is).               *)
(***************************************************************************)
\* the squared distance of the point p from the segment a-b (geo's
\* line_segment_distance) as the rational <<n, d>>, all on the exponent e
SqDistToSegment(p, a, b, e) ==
    LET Dist(px, py, dx, dy) ==
            LET len2 == dx * dx + dy * dy
                dot == px * dx + py * dy
            IN  IF len2 = 0 \/ dot <= 0 THEN <<px * px + py * py, 1>>
                ELSE IF dot >= len2
                THEN <<(px - dx) * (px - dx) + (py - dy) * (py - dy), 1>>
                ELSE <<(py * dx - px * dy) * (py * dx - px * dy), len2>>
    IN  Dist(Aligned(p.x, e) - Aligned(a.x, e), Aligned(p.y, e) - Aligned(a.y, e),
             Aligned(b.x, e) - Aligned(a.x, e), Aligned(b.y, e) - Aligned(a.y, e))

\* the fold over the inner points lo+1 .. hi-1: the first point farthest from
\* the line first-last, <<index, squared distance>>, starting from (0, 0)
RECURSIVE Farthest(_, _, _, _, _, _)
Farthest(cs, lo, hi, i, best, e) ==
    IF i >= hi THEN best
    ELSE LET Farther(d) == IF d[1] * best[2][2] > best[2][1] * d[2] THEN <<i, d>> ELSE best
         IN  Farthest(cs, lo, hi, i + 1, Farther(SqDistToSegment(cs[i], cs[lo], cs[hi], e)), e)

\* geo's compute_rdp on the points lo .. hi of cs: the indices kept
RECURSIVE compute_rdp(_, _, _, _, _)
compute_rdp(cs, lo, hi, epsilon, e) ==
    IF hi = lo + 1 THEN <<lo, hi>>
    ELSE LET eps == Aligned(epsilon, e)
             ButLast(left) == SubSeq(left, 1, Len(left) - 1)
             Split(far) ==
                 IF far[2][1] > eps * eps * far[2][2]
                 THEN ButLast(compute_rdp(cs, lo, far[1], epsilon, e))
                          \o compute_rdp(cs, far[1], hi, epsilon, e)
                 ELSE <<lo, hi>>
         IN  Split(Farthest(cs, lo, hi, lo + 1, <<0, <<0, 1>> >>, e))

\* LineString::simplify
SimplifyLineString(cs, epsilon) ==
    IF cs = << >> THEN << >>
    ELSE LET e == MinExp({epsilon} \cup {cs[i].x : i \in DOMAIN cs}
                             \cup {cs[i].y : i \in DOMAIN cs})
             Pick(kept) == [i \in DOMAIN kept |-> cs[kept[i]]]
         IN  Pick(compute_rdp(cs, 1, Len(cs), epsilon, e))

\* a faulty simplification that drops every feature's last coordinate
simplify_geo_truncating(geometry, epsilon) ==
    IF geometry.coords = << >> THEN None
    ELSE Some([geometry EXCEPT !.coords = SubSeq(@, 1, Len(@) - 1)])

simplify_geo(geometry, epsilon) ==
    IF geometry.kind \in {"LineString", "Polygon"}
    THEN Some([geometry EXCEPT !.coords = SimplifyLineString(@, epsilon)])
    ELSE IF geometry.kind \in {"MultiLineString", "MultiPolygon"}
    THEN Some([geometry EXCEPT !.coords =
                  [i \in DOMAIN @ |-> SimplifyLineString(@[i], epsilon)]])
    ELSE None

simplify(fc, epsilon) ==
    [i \in DOMAIN fc |->
        LET Replaced(opt) ==
                IF opt.tag = "Some" THEN [fc[i] EXCEPT !.geometry = opt.val] ELSE fc[i]
        IN  Replaced(simplify_geo(fc[i].geometry, epsilon))]

\* Vec::swap_remove of the 1-based index i
swap_remove(fc, i) ==
    LET last == fc[Len(fc)]
        moved == [fc EXCEPT ![i] = last]
    IN  SubSeq(moved, 1, Len(fc) - 1)

\* the integer square root
RECURSIVE Isqrt(_)
Isqrt(n) ==
    IF n < 2 THEN n
    ELSE LET r == 2 * Isqrt(n \div 4)
         IN  IF (r + 1) * (r + 1) <= n THEN r + 1 ELSE r

\* dx.hypot(dy): exact where the length is a multiple of the coordinates' unit
\* (segments along an axis, sides 3-4-5), else cut to that unit
hypot(dx, dy) ==
    LET e == Min2(dx.e, dy.e)
    IN  RoundF32(Isqrt(Aligned(dx, e) * Aligned(dx, e) + Aligned(dy, e) * Aligned(dy, e)), e)

\* Line::euclidean_length and LineString::euclidean_length
RECURSIVE SumLengths(_, _, _)
SumLengths(cs, i, sum) ==
    IF i >= Len(cs) THEN sum
    ELSE SumLengths(cs, i + 1,
                    FAdd(sum, hypot(FSub(cs[i + 1].x, cs[i].x), FSub(cs[i + 1].y, cs[i].y))))

euclidean_length(cs) == SumLengths(cs, 1, FromInt(0))

\* geo's twice_signed_ring_area: the determinants of the lines of the ring,
\* shifted by its first coordinate; zero for a ring that is not closed
RECURSIVE RingDeterminants(_, _, _)
RingDeterminants(ring, i, tmp) ==
    IF i >= Len(ring) THEN tmp
    ELSE LET sx == FSub(ring[i].x, ring[1].x)
             sy == FSub(ring[i].y, ring[1].y)
             ex == FSub(ring[i + 1].x, ring[1].x)
             ey == FSub(ring[i + 1].y, ring[1].y)
         IN  RingDeterminants(ring, i + 1, FAdd(tmp, FSub(FMul(sx, ey), FMul(sy, ex))))

twice_signed_ring_area(ring) ==
    IF Len(ring) < 2 \/ ring[1] # ring[Len(ring)] THEN FromInt(0)
    ELSE RingDeterminants(ring, 1, FromInt(0))

FAbs(a) == [m |-> Abs(a.m), e |-> a.e]

\* Polygon::unsigned_area and MultiPolygon::unsigned_area
PolygonUnsignedArea(ring) == FAbs(FDiv(twice_signed_ring_area(ring), FromInt(2)))

RECURSIVE SumAreas(_, _, _)
SumAreas(rings, i, total) ==
    IF i > Len(rings) THEN total
    ELSE SumAreas(rings, i + 1, FAdd(total, PolygonUnsignedArea(rings[i])))

MultiPolygonUnsignedArea(rings) == SumAreas(rings, 1, FromInt(0))

\* a faulty `keep` that also keeps what is exactly at the limit
RemoveEmptyKeep_AtLimit(geometry, line_limit, area_limit) ==
    CASE geometry.kind \in {"Point", "MultiPoint"} -> "keep"
      [] geometry.kind \in {"Line", "LineString"} ->
            IF FGe(euclidean_length(geometry.coords), line_limit) THEN "keep" ELSE "drop"
      [] geometry.kind = "Polygon" ->
            IF FGe(PolygonUnsignedArea(geometry.coords), area_limit) THEN "keep" ELSE "drop"
      [] geometry.kind = "MultiPolygon" ->
            IF FGe(MultiPolygonUnsignedArea(geometry.coords), area_limit)
            THEN "keep" ELSE "drop"
      [] OTHER -> "todo"

\* the `keep` of one feature: "keep", "drop", or "todo" where the code is todo!()
RemoveEmptyKeep(geometry, line_limit, area_limit) ==
    CASE geometry.kind \in {"Point", "MultiPoint"} -> "keep"
      [] geometry.kind \in {"Line", "LineString"} ->
            IF ~FLe(euclidean_length(geometry.coords), line_limit) THEN "keep" ELSE "drop"
      [] geometry.kind = "Polygon" ->
            IF ~FLe(PolygonUnsignedArea(geometry.coords), area_limit) THEN "keep" ELSE "drop"
      [] geometry.kind = "MultiPolygon" ->
            IF ~FLe(MultiPolygonUnsignedArea(geometry.coords), area_limit)
            THEN "keep" ELSE "drop"
      [] OTHER -> "todo"

\* the loop `for i in (0..len).rev()`, at 1-based index i
RECURSIVE RemoveEmptyFrom(_, _, _, _)
RemoveEmptyFrom(fc, i, line_limit, area_limit) ==
    IF i = 0 THEN [tag |-> "Done", fc |-> fc]
    ELSE LET Step(keep) ==
                 IF keep = "todo" THEN [tag |-> "Panic"]
                 ELSE IF keep = "keep" THEN RemoveEmptyFrom(fc, i - 1, line_limit, area_limit)
                 ELSE RemoveEmptyFrom(swap_remove(fc, i), i - 1, line_limit, area_limit)
         IN  Step(RemoveEmptyKeep(fc[i].geometry, line_limit, area_limit))

remove_empty(fc, line_limit, area_limit) ==
    RemoveEmptyFrom(fc, Len(fc), line_limit, area_limit)

simplify_mounts(fc, distance) == [tag |-> "Panic"]

PointLayers ==
    {<<"b", "u", "n", "k", "e", "r">>,
     <<"c", "h", "a", "p", "e", "l">>,
     <<"c", "h", "u", "r", "c", "h">>,
     <<"c", "r", "o", "s", "s">>,
     <<"f", "u", "e", "l", "s", "t", "a", "t", "i", "o", "n">>,
     <<"l", "i", "g", "h", "t", "h", "o", "u", "s", "e">>,
     <<"r", "o", "c", "k">>,
     <<"s", "h", "i", "p", "w", "r", "e", "c", "k">>,
     <<"t", "r", "a", "n", "s", "m", "i", "t", "t", "e", "r">>,
     <<"w", "a", "t", "e", "r", "t", "o", "w", "e", "r">>,
     <<"f", "o", "r", "t", "r", "e", "s", "s">>,
     <<"f", "o", "u", "n", "t", "a", "i", "n">>,
     <<"v", "i", "e", "w", "-", "t", "o", "w", "e", "r">>,
     <<"q", "u", "a", "y">>,
     <<"h", "o", "s", "p", "i", "t", "a", "l">>,
     <<"b", "u", "s", "s", "t", "o", "p">>,
     <<"s", "t", "a", "c", "k">>,
     <<"r", "u", "i", "n">>,
     <<"t", "o", "u", "r", "i", "s", "m">>,
     <<"p", "o", "w", "e", "r", "s", "o", "l", "a", "r">>,
     <<"p", "o", "w", "e", "r", "w", "a", "v", "e">>,
     <<"p", "o", "w", "e", "r", "w", "i", "n", "d">>,
     <<"t", "r", "e", "e">>,
     <<"b", "u", "s", "h">>}

RoadLayers ==
    {<<"r", "o", "a", "d", "s", "/", "m", "a", "i", "n", "_", "r", "o", "a", "d">>,
     <<"r", "o", "a", "d", "s", "/", "r", "o", "a", "d">>,
     <<"r", "o", "a", "d", "s", "/", "t", "r", "a", "c", "k">>,
     <<"r", "o", "a", "d", "s", "/", "t", "r", "a", "i", "l">>}

BridgeLayers ==
    {<<"r", "o", "a", "d", "s", "/", "m", "a", "i", "n", "_", "r", "o", "a", "d", "-", "b",
      "r", "i", "d", "g", "e">>,
     <<"r", "o", "a", "d", "s", "/", "r", "o", "a", "d", "-", "b", "r", "i", "d", "g", "e">>,
     <<"r", "o", "a", "d", "s", "/", "t", "r", "a", "c", "k", "-", "b", "r", "i", "d", "g",
      "e">>,
     <<"r", "o", "a", "d", "s", "/", "t", "r", "a", "i", "l", "-", "b", "r", "i", "d", "g",
      "e">>}

\* a faulty policy that is applied at every LOD
SimplifyLayer_EveryLod(name, collection, max_lod_now) ==
    IF name = N_mount THEN simplify_mounts(collection, FromInt(100))
    ELSE IF starts_with(name, N_locations) THEN [tag |-> "Done", fc |-> collection]
    ELSE IF name \in {N_contours, N_water}
    THEN remove_empty(simplify(collection, FromInt(5)), FromInt(100), FromInt(0))
    ELSE remove_empty(simplify(collection, FromInt(1)), FromInt(100), FromInt(200))

\* the closure body of the simplification phase, for one layer
SimplifyLayer(name, collection, max_lod_now) ==
    IF max_lod_now /\ name = N_mount THEN simplify_mounts(collection, FromInt(100))
    ELSE IF max_lod_now THEN [tag |-> "Done", fc |-> collection]
    ELSE IF starts_with(name, N_locations) THEN [tag |-> "Done", fc |-> collection]
    ELSE CASE name \in PointLayers -> [tag |-> "Done", fc |-> collection]
           [] name = N_mount -> simplify_mounts(collection, FromInt(1000))
           [] name \in {N_railway, N_powerline} ->
                [tag |-> "Done", fc |-> simplify(collection, FromInt(1))]
           [] name = N_house -> remove_empty(collection, FromInt(0), FromInt(70))
           [] name \in {N_contours, N_water} ->
                remove_empty(simplify(collection, FromInt(5)), FromInt(100), FromInt(0))
           [] name \in RoadLayers ->
                [tag |-> "Done", fc |-> simplify(collection, FromInt(2))]
           [] name \in BridgeLayers -> [tag |-> "Done", fc |-> collection]
           [] OTHER ->
                remove_empty(simplify(collection, FromInt(1)), FromInt(100), FromInt(200))

\* the whole phase: every layer's task; it aborts when some task panics
SimplifyLayers(collections, max_lod_now) ==
    LET Joined(tasks) ==
            IF \E name \in DOMAIN tasks : tasks[name].tag = "Panic"
            THEN [tag |-> "Panic"]
            ELSE [tag |-> "Done",
                  collections |-> [name \in DOMAIN tasks |-> tasks[name].fc]]
    IN  Joined([name \in DOMAIN collections |->
                   SimplifyLayer(name, collections[name], max_lod_now)])

(***************************************************************************)
(* The simplification phase as rayon runs it: par_iter_mut() hands every   *)
(* layer to a task of its own, for_each returns when all tasks have ended. *)
(* A task is the closure body for its layer, cut at its calls: the list of *)
(* the operations it still has to apply to its collection.                 *)
(***************************************************************************)
SimplifyOp(epsilon) == [op |-> "simplify", epsilon |-> FromInt(epsilon)]
RemoveEmptyOp(line_limit, area_limit) ==
    [op |-> "remove_empty", line_limit |-> FromInt(line_limit),
     area_limit |-> FromInt(area_limit)]
SimplifyMountsOp(distance) == [op |-> "simplify_mounts", distance |-> FromInt(distance)]

\* the calls of the closure body for the layer `name`, in order
TaskOps(name, max_lod_now) ==
    IF max_lod_now /\ name = N_mount THEN <<SimplifyMountsOp(100)>>
    ELSE IF max_lod_now THEN << >>
    ELSE IF starts_with(name, N_locations) THEN << >>
    ELSE CASE name \in PointLayers -> << >>
           [] name = N_mount -> <<SimplifyMountsOp(1000)>>
           [] name \in {N_railway, N_powerline} -> <<SimplifyOp(1)>>
           [] name = N_house -> <<RemoveEmptyOp(0, 70)>>
           [] name \in {N_contours, N_water} -> <<SimplifyOp(5), RemoveEmptyOp(100, 0)>>
           [] name \in RoadLayers -> <<SimplifyOp(2)>>
           [] name \in BridgeLayers -> << >>
           [] OTHER -> <<SimplifyOp(1), RemoveEmptyOp(100, 200)>>

\* one call on the task's collection
ApplyOp(o, collection) ==
    IF o.op = "simplify" THEN [tag |-> "Done", fc |-> simplify(collection, o.epsilon)]
    ELSE IF o.op = "remove_empty" THEN remove_empty(collection, o.line_limit, o.area_limit)
    ELSE simplify_mounts(collection, o.distance)

\* a faulty task that works on the `water` layer's collection when there is one
TaskCollection_Shared(collections, name) ==
    IF N_water \in DOMAIN collections THEN collections[N_water] ELSE collections[name]

\* the &mut FeatureCollection that par_iter_mut yields for the key `name`
TaskCollection(collections, name) == collections[name]

(***************************************************************************)
(* The DEM raster and build_mounts.  A raster is [columns, rows, left,      *)
(* bottom, cell_size, no_data_value, data]; data is row after row.          *)
(***************************************************************************)
USIZE_BITS == 64

\* DEMRaster::x, DEMRaster::y, DEMRaster::z
DEM_x(dem, column) == FAdd(dem.left, FMul(FromInt(column), dem.cell_size))

\* norm_row = rows - row is a usize: for row > rows the subtraction overflows,
\* which aborts where overflow is checked and wraps around where it is not
DEM_y(dem, row, overflow_checks) ==
    IF row <= dem.rows
    THEN Some(FAdd(dem.bottom, FMul(FromInt(dem.rows - row), dem.cell_size)))
    ELSE IF overflow_checks THEN None
    ELSE Some(FAdd(dem.bottom, FMul(Norm(1, USIZE_BITS), dem.cell_size)))

DEM_z(dem, col, row) == dem.data[col + row * dem.columns + 1]

NEIGHBOUR_CELLS ==
    << <<-1, -1>>, <<-1, 0>>, <<-1, 1>>, <<0, -1>>, <<0, 1>>, <<1, -1>>, <<1, 0>>, <<1, 1>> >>

has_higher_neighbors(dem, col, row) ==
    \E i \in DOMAIN NEIGHBOUR_CELLS :
        FGe(DEM_z(dem, col + NEIGHBOUR_CELLS[i][1], row + NEIGHBOUR_CELLS[i][2]),
            DEM_z(dem, col, row))

\* format!("{:.0}", v): the nearest integer, ties to even, with the sign of v
RoundHalfEven(a) ==
    IF a.e >= 0 THEN Abs(a.m) * 2^a.e
    ELSE LET d == 2^(-a.e)
             q == Abs(a.m) \div d
             r == Abs(a.m) % d
         IN  IF 2 * r > d \/ (2 * r = d /\ q % 2 = 1) THEN q + 1 ELSE q

RECURSIVE DecimalString(_)
DecimalString(n) ==
    LET digit == <<"0", "1", "2", "3", "4", "5", "6", "7", "8", "9">>[(n % 10) + 1]
    IN  IF n < 10 THEN <<digit>> ELSE Append(DecimalString(n \div 10), digit)

FormatF0(a) == (IF a.m < 0 THEN <<"-">> ELSE << >>) \o DecimalString(RoundHalfEven(a))

\* the feature pushed for the peak (col, row); None where the run aborts
MountFeature(dem, elevation_offset, col, row, overflow_checks) ==
    LET y == DEM_y(dem, col, overflow_checks)
        corrected_elevation == FAdd(DEM_z(dem, col, row), elevation_offset)
    IN  IF y.tag = "None" THEN None
        ELSE Some(Feature(Point(DEM_x(dem, col), y.val),
                          [elevation |-> corrected_elevation,
                           text |-> FormatF0(corrected_elevation)]))

\* the loops `for col in 1..w-1 { for row in 1..h-1 {..} }` from (col, row) on
RECURSIVE MountsFrom(_, _, _, _, _, _)
MountsFrom(dem, elevation_offset, col, row, mounts, overflow_checks) ==
    IF col >= dem.columns - 1 THEN [tag |-> "Done", mounts |-> mounts]
    ELSE IF row >= dem.rows - 1
    THEN MountsFrom(dem, elevation_offset, col + 1, 1, mounts, overflow_checks)
    ELSE IF FLe(DEM_z(dem, col, row), FromInt(0)) \/ has_higher_neighbors(dem, col, row)
    THEN MountsFrom(dem, elevation_offset, col, row + 1, mounts, overflow_checks)
    ELSE LET f == MountFeature(dem, elevation_offset, col, row, overflow_checks)
         IN  IF f.tag = "None" THEN [tag |-> "Panic"]
             ELSE MountsFrom(dem, elevation_offset, col, row + 1, Append(mounts, f.val),
                             overflow_checks)

\* mounts.sort_by(elevation): a stable sort
RECURSIVE SortByElevation(_)
SortByElevation(fc) ==
    IF fc = << >> THEN << >>
    ELSE LET sorted == SortByElevation(SubSeq(fc, 1, Len(fc) - 1))
             last == fc[Len(fc)]
             n == Cardinality({i \in DOMAIN sorted :
                                  FLe(sorted[i].properties.elevation,
                                      last.properties.elevation)})
         IN  SubSeq(sorted, 1, n) \o <<last>> \o SubSeq(sorted, n + 1, Len(sorted))

N_mounts == <<"m", "o", "u", "n", "t", "s">>

\* the registry after the call and the call's result; tag Panic when it aborts
build_mounts(dem, elevation_offset, collections, overflow_checks) ==
    LET r == MountsFrom(dem, elevation_offset, 1, 1, << >>, overflow_checks)
    IN  IF r.tag = "Panic" THEN r
        ELSE [tag |-> "Done",
              collections |-> [name \in DOMAIN collections \cup {N_mounts} |->
                                  IF name = N_mounts THEN SortByElevation(r.mounts)
                                  ELSE collections[name]],
              ret |-> Ok("unit")]

(***************************************************************************)
(* build_contours.  The samples are widened to f64, which changes no       *)
(* value.  The contour library traces, for every threshold, the polygons   *)
(* around the samples at or above it; the rings are not traced here: a     *)
(* contour keeps its threshold and the centres of the cells it encloses,   *)
(* the centre of cell (col, row) being (col + 0.5, row + 0.5) in the grid  *)
(* coordinates of the library.                                             *)
(***************************************************************************)
I64_BITS == 64

RECURSIVE BitLength(_)
BitLength(n) == IF n = 0 THEN 0 ELSE 1 + BitLength(n \div 2)

\* a <= b by partial_cmp, for numbers of any magnitude
F64Le(a, b) ==
    IF a.m <= 0 /\ b.m >= 0 THEN TRUE
    ELSE IF a.m >= 0 /\ b.m <= 0 THEN FALSE
    ELSE LET top_a == BitLength(Abs(a.m)) + a.e
             top_b == BitLength(Abs(b.m)) + b.e
         IN  IF top_a = top_b THEN FLe(a, b)
             ELSE IF a.m > 0 THEN top_a < top_b
             ELSE top_a > top_b

\* a faulty conversion that rounds down
to_i64_floor(a) ==
    IF BitLength(Abs(a.m)) + a.e >= I64_BITS THEN None
    ELSE IF a.e >= 0 THEN Some(a.m * 2^a.e)
    ELSE Some(a.m \div 2^(-a.e))

\* f64::to_i64: truncation toward zero, None outside [-2^63, 2^63)
to_i64(a) ==
    IF BitLength(Abs(a.m)) + a.e < I64_BITS \/ (a.m = -1 /\ a.e = I64_BITS - 1)
    THEN Some(ToI32(a))
    ELSE None

ValidSamples(dem) ==
    {dem.data[i] : i \in {j \in DOMAIN dem.data : dem.data[j] # dem.no_data_value}}

min_elevation(dem) ==
    IF ValidSamples(dem) = {} THEN None
    ELSE Some(CHOOSE x \in ValidSamples(dem) : \A y \in ValidSamples(dem) : F64Le(x, y))

max_elevation(dem) ==
    IF ValidSamples(dem) = {} THEN None
    ELSE Some(CHOOSE x \in ValidSamples(dem) : \A y \in ValidSamples(dem) : F64Le(y, x))

\* (min ..= max).map(to_f64)
Thresholds(lo, hi) == [i \in 1..(hi - lo + 1) |-> lo + i - 1]

expand_by_cell_size(c, cell_size, world_size) ==
    Coord(FMul(c.x, cell_size), FSub(FromInt(world_size), FMul(c.y, cell_size)))

CellCentre(dem, i) ==
    Coord(Norm(2 * ((i - 1) % dem.columns) + 1, -1),
          Norm(2 * ((i - 1) \div dem.columns) + 1, -1))

\* the feature of one threshold after its conversion, which drops the
\* properties, and after map_coords_inplace
ContourOf(dem, threshold, world_size) ==
    Feature([kind |-> "MultiPolygon",
             threshold |-> threshold,
             cells |-> {expand_by_cell_size(CellCentre(dem, i), dem.cell_size, world_size) :
                           i \in {j \in DOMAIN dem.data :
                                     F64Le(FromInt(threshold), dem.data[j])}}],
            << >>)

\* ContourBuilder::contours: one feature per threshold, or an error
Contours(dem, thresholds, world_size) ==
    IF Len(dem.data) # dem.columns * dem.rows THEN Err("BadDimension")
    ELSE Ok([i \in DOMAIN thresholds |-> ContourOf(dem, thresholds[i], world_size)])

N_contours_01 == N_contours_slash \o <<"0", "1">>
ContourSubLayers ==
    {N_contours_slash \o <<"0", "5">>, N_contours_slash \o <<"1", "0">>,
     N_contours_slash \o <<"5", "0">>, N_contours_slash \o <<"1", "0", "0">>}

\* the registry after the call and the call's result; tag Panic when it aborts
build_contours(dem, elevation_offset, world_size, collections) ==
    LET lo == min_elevation(dem)
        hi == max_elevation(dem)
    IN  IF lo.tag = "None"
        THEN [tag |-> "Done", collections |-> collections,
              ret |-> Err("no values in DEM raster")]
        ELSE IF to_i64(lo.val).tag = "None" \/ to_i64(hi.val).tag = "None"
        THEN [tag |-> "Panic"]
        ELSE LET res == Contours(dem, Thresholds(to_i64(lo.val).val, to_i64(hi.val).val),
                                 world_size)
                 names == DOMAIN collections \cup ContourSubLayers
                              \cup (IF res.tag = "Ok" THEN {N_contours_01} ELSE {})
             IN  [tag |-> "Done",
                  collections |->
                      [name \in names |->
                          IF name \in ContourSubLayers THEN << >>
                          ELSE IF name = N_contours_01 /\ res.tag = "Ok" THEN res.val
                          ELSE collections[name]],
                  ret |-> IF res.tag = "Ok" THEN Ok("unit") ELSE res]

(***************************************************************************)
(* calc_max_lod.  The quotient world_size * 10 / tile_size is an f64; for  *)
(* sizes below 2^31 its rounding carries it across no power of two, so it  *)
(* is kept as the exact ratio <<numerator, denominator>>.  A tile size of  *)
(* 0 gives an infinite quotient, which to_usize does not convert.          *)
(***************************************************************************)
\* a faulty logarithm that is rounded down
RECURSIVE FloorLog2(_, _)
FloorLog2(x, k) == IF x[1] < x[2] * 2^(k + 1) THEN k ELSE FloorLog2(x, k + 1)

\* x.log2().ceil() for a ratio x >= 1, counting up from k
RECURSIVE CeilLog2(_, _)
CeilLog2(x, k) == IF x[1] <= x[2] * 2^k THEN k ELSE CeilLog2(x, k + 1)

calc_max_lod(world_size, tile_size) ==
    LET Max1(x) == IF x[1] < x[2] THEN <<1, 1>> ELSE x
    IN  IF tile_size = 0 THEN Err("could not convert to usize. Negative value?")
        ELSE Ok(CeilLog2(Max1(<<world_size * 10, tile_size>>), 0))

(***************************************************************************)
(* load_geo_jsons.  A path relative to the walk root is the sequence of    *)
(* its pieces: letters, the separator "/" and the extensions ".geojson"    *)
(* and ".gz".  A directory entry is [path, content], the content being     *)
(* what reading, decompressing and parsing the file gives: Ok(the GeoJSON  *)
(* features) or the error.                                                 *)
(***************************************************************************)
GEOJSON_GZ == <<".geojson", ".gz">>

ends_with(s, suffix) ==
    /\ Len(s) >= Len(suffix)
    /\ SubSeq(s, Len(s) - Len(suffix) + 1, Len(s)) = suffix

\* str::replace(from, ""): every match is removed, left to right
RECURSIVE replace(_, _)
replace(s, from) ==
    IF Len(s) < Len(from) THEN s
    ELSE IF SubSeq(s, 1, Len(from)) = from
    THEN replace(SubSeq(s, Len(from) + 1, Len(s)), from)
    ELSE <<Head(s)>> \o replace(Tail(s), from)

\* the files of the walk, in the order in which read_dir yields them
find_files_rec(listing) == SelectSeq(listing, LAMBDA e : ends_with(e.path, GEOJSON_GZ))

path_to_layer_name(rel_path) == Ok(replace(rel_path, GEOJSON_GZ))

\* the features that have a geometry, in order
read_zipped_geo_json(entry) ==
    IF entry.content.tag = "Err" THEN entry.content
    ELSE LET with_geometry == SelectSeq(entry.content.val, LAMBDA f : f.geometry.tag = "Some")
         IN  Ok([i \in DOMAIN with_geometry |->
                    Feature(with_geometry[i].geometry.val, with_geometry[i].properties)])

RECURSIVE InsertAll(_, _)
InsertAll(collections, values) ==
    IF values = << >> THEN collections
    ELSE InsertAll((Head(values)[1] :> Head(values)[2]) @@ collections, Tail(values))

\* the registry after the call, and the call's result
load_geo_jsons(listing, collections) ==
    LET Load(entry) ==
            LET layer_name == path_to_layer_name(entry.path)
                fc == read_zipped_geo_json(entry)
            IN  IF layer_name.tag = "Err" THEN layer_name
                ELSE IF fc.tag = "Err" THEN fc
                ELSE Ok(<<layer_name.val, fc.val>>)
        Partitioned(results) ==
            LET ok_results == SelectSeq(results, LAMBDA r : r.tag = "Ok")
                err_results == SelectSeq(results, LAMBDA r : r.tag = "Err")
            IN  IF Len(err_results) > 0
                THEN [collections |-> collections, ret |-> err_results[1]]
                ELSE [collections |->
                          InsertAll(collections,
                                    [i \in DOMAIN ok_results |-> ok_results[i].val]),
                      ret |-> Ok("unit")]
        Mapped(files) == Partitioned([i \in DOMAIN files |-> Load(files[i])])
    IN  Mapped(find_files_rec(listing))

(***************************************************************************)
(* build_lod_vector_tiles.  The file system is the set of directories and  *)
(* the written files (path -> tile); a path is a sequence of components.   *)
(***************************************************************************)
Parent(path) == SubSeq(path, 1, Len(path) - 1)

\* the directories afterwards, or an error
ensure_directory(fs, dir) ==
    IF dir \in fs.dirs THEN Ok(fs)
    ELSE IF Parent(dir) \in fs.dirs /\ dir \notin DOMAIN fs.files
    THEN Ok([fs EXCEPT !.dirs = @ \cup {dir}])
    ELSE Err("create_dir failed")

\* a faulty tile count that grows linearly with the LOD
TilesPerDimension_Linear(lod) == 2 * lod

TilesPerDimension(lod) == (2^lod) % (2^U16_BITS)

write_to_file(fs, path, tile) ==
    IF Parent(path) \in fs.dirs
    THEN [fs EXCEPT !.files = (path :> tile) @@ @]
    ELSE fs

TilePath(col_path, row) == col_path \o <<[stem |-> row, ext |-> "pbf"]>>

RECURSIVE WriteRows(_, _, _, _, _, _, _)
WriteRows(fs, collections, keys, col, col_path, row, n) ==
    IF row = n THEN fs
    ELSE WriteRows(write_to_file(fs, TilePath(col_path, row),
                                 create_tile(col, row, collections, keys).val),
                   collections, keys, col, col_path, row + 1, n)

RECURSIVE WriteCols(_, _, _, _, _, _)
WriteCols(fs, collections, keys, lod_dir, col, n) ==
    IF col = n THEN [fs |-> fs, ret |-> Ok("unit")]
    ELSE LET col_path == lod_dir \o <<col>>
             made == ensure_directory(fs, col_path)
         IN  IF made.tag = "Err" THEN [fs |-> fs, ret |-> made]
             ELSE WriteCols(WriteRows(made.val, collections, keys, col, col_path, 0, n),
                            collections, keys, lod_dir, col + 1, n)

\* the file system after the call, and the call's result
build_lod_vector_tiles(fs, collections, keys, lod, lod_dir) ==
    LET made == ensure_directory(fs, lod_dir)
    IN  IF made.tag = "Err" THEN [fs |-> fs, ret |-> made]
        ELSE WriteCols(made.val, collections, keys, lod_dir, 0, TilesPerDimension(lod))

(***************************************************************************)
(* State.                                                                  *)
(***************************************************************************)
VARIABLES
    pc,              \* the control point of build_vector_tiles (or the mode of a unit run)
    args,            \* the arguments: collections, world_size, max_lod, keys, layer_settings
    projection,      \* the ArmaMaxLodTileProjection, None before it is constructed
    projection_lod,  \* the loop variable `projection_lod`: Ok(lod) or Err
    fs,              \* the output directory tree: directories and written tiles
    fill_result,     \* what fill_contour_layers returned in this iteration
    tiles_result,    \* what build_lod_vector_tiles returned in this iteration
    history,         \* the phases completed so far, <<phase, lod>>, in order
    constructed,     \* the registry as the constructor left it
    calls,           \* decrease_lod calls so far: [ok, failed]
    call             \* the last call of a unit run: its arguments and its result

vars ==
    <<pc, args, projection, projection_lod, fs, fill_result, tiles_result,
      history, constructed, calls, call>>

(***************************************************************************)
(* Inputs.                                                                 *)
(***************************************************************************)
WorldSizes == {256, 1024}
\* the world size of the runs of build_vector_tiles
PipelineWorldSizes == {256}

Props(k) == [id |-> k]

\* the i-th feature of an input `contours` layer
ContourFeature(i) == Feature(Point(FromInt(16 * i + 1), FromInt(2 * i)), Props(i))
ContourFeatures(n) == [i \in 1..n |-> ContourFeature(i - 1)]

F_point == Feature(Point(FromInt(1), FromInt(2)), Props(100))
F_centre == Feature(Point(FromInt(128), FromInt(128)), Props(101))
F_multi ==
    Feature(MultiPoint(<<Coord(FromInt(3), FromInt(4)), Coord(FromInt(5), FromInt(6))>>),
            Props(102))
\* a short line string
F_line ==
    Feature(LineString(<<Coord(FromInt(1), FromInt(1)), Coord(FromInt(2), FromInt(1))>>),
            Props(106))
F_rect ==
    Feature(RectGeometry(Coord(FromInt(0), FromInt(0)), Coord(FromInt(8), FromInt(8))),
            Props(103))

EmptyRegistry == [name \in {} |-> << >>]
Layer1(name, fc) == [n \in {name} |-> fc]

\* the base layer: absent, or `contours` with 0..MaxBase features
BaseChoices ==
    {EmptyRegistry} \cup {Layer1(N_contours, ContourFeatures(n)) : n \in 0..MaxBase}

\* one empty sub-layer, as build_contours declares them, or none
SubLayerSuffixes == {<<"2">>, <<"0", "2">>, <<"0">>}
SubChoices ==
    {EmptyRegistry} \cup {Layer1(ContourLayer(sfx), << >>) : sfx \in SubLayerSuffixes}

\* one further layer, or none
OtherChoices ==
    {EmptyRegistry,
     Layer1(N_foo, <<F_centre, F_multi>>),
     Layer1(N_bar, <<F_rect>>),
     Layer1(LocationLayer(<<"x">>), <<F_rect, F_point>>),
     Layer1(N_water, <<F_line, F_point>>),
     Layer1(N_mount, <<F_point>>)}

Registries == {b @@ s @@ o : b \in BaseChoices, s \in SubChoices, o \in OtherChoices}

\* every order in which a HashMap with the key set S may yield its keys
KeyOrders(S) ==
    {k \in [1..Cardinality(S) -> S] : \A i, j \in 1..Cardinality(S) : i # j => k[i] # k[j]}

Setting(layer, minzoom, maxzoom) == [layer |-> layer, minzoom |-> minzoom, maxzoom |-> maxzoom]

\* every layer of the model at every LOD
SettingsAlways ==
    <<Setting(N_contours, None, None), Setting(N_foo, None, None),
      Setting(ContourLayer(<<"2">>), None, None),
      Setting(ContourLayer(<<"0", "2">>), None, None),
      Setting(ContourLayer(<<"0">>), None, None)>>

\* sub-layers by LOD
SettingsByLod ==
    <<Setting(ContourLayer(<<"2">>), None, Some(0)),
      Setting(ContourLayer(<<"0", "2">>), Some(1), Some(1)),
      Setting(N_foo, Some(0), None)>>

SettingsChoices == {SettingsAlways, SettingsByLod}

output_path == <<"out">>
InitialFs == [dirs |-> {output_path}, files |-> [f \in {} |-> None]]

NoCall == [fn |-> "none"]

(***************************************************************************)
(* build_vector_tiles.                                                     *)
(***************************************************************************)
Init ==
    /\ pc = "new"
    /\ \E c \in Registries, w \in PipelineWorldSizes, m \in 0..MaxLod,
          ls \in SettingsChoices :
         \E k \in KeyOrders(DOMAIN c) :
            args = [collections |-> c, world_size |-> w, max_lod |-> m,
                    keys |-> k, layer_settings |-> ls]
    /\ projection = None
    /\ projection_lod = None
    /\ fs = InitialFs
    /\ fill_result = None
    /\ tiles_result = None
    /\ history = << >>
    /\ constructed = None
    /\ calls = [ok |-> 0, failed |-> 0]
    /\ call = NoCall

lod == projection_lod.val

\* let mut projection = ArmaMaxLodTileProjection::new(..); let mut projection_lod = Ok(max_lod)
New ==
    /\ pc = "new"
    /\ projection' = ArmaMaxLodTileProjection_new(args.collections, args.world_size,
                                                   args.max_lod, TILE_SIZE)
    /\ constructed' = projection'.collections
    /\ projection_lod' = Ok(args.max_lod)
    /\ pc' = "simplify"
    /\ UNCHANGED <<args, fs, fill_result, tiles_result, history, calls, call>>

\* a faulty loop body that goes from simplification straight to tile encoding
Simplify_SkipFill ==
    /\ pc = "simplify"
    /\ pc' = "tiles"
    /\ history' = Append(history, <<"simplify", lod>>)
    /\ fill_result' = None
    /\ tiles_result' = None
    /\ UNCHANGED <<args, projection, projection_lod, fs, constructed, calls, call>>

\* the simplification phase of one iteration
Simplify ==
    /\ pc = "simplify"
    /\ LET r == SimplifyLayers(projection.collections, is_max_lod(projection))
       IN  IF r.tag = "Panic"
           THEN /\ pc' = "panic"
                /\ UNCHANGED <<projection, history>>
           ELSE /\ pc' = "fill"
                /\ projection' = [projection EXCEPT !.collections = r.collections]
                /\ history' = Append(history, <<"simplify", lod>>)
    /\ fill_result' = None
    /\ tiles_result' = None
    /\ UNCHANGED <<args, projection_lod, fs, constructed, calls, call>>

\* a faulty loop body that returns from the command when the fill fails
FillContours_Propagate ==
    /\ pc = "fill"
    /\ LET lod_layer_names == find_lod_layers(args.keys, lod, args.layer_settings)
           r == fill_contour_layers(lod_layer_names, projection.collections)
       IN  IF r.tag = "Panic"
           THEN /\ pc' = "panic"
                /\ UNCHANGED <<projection, history, fill_result>>
           ELSE /\ pc' = IF r.ret.tag = "Err" THEN "done" ELSE "tiles"
                /\ projection' = [projection EXCEPT !.collections = r.collections]
                /\ fill_result' = r.ret
                /\ history' = Append(history, <<"fill", lod>>)
    /\ UNCHANGED <<args, projection_lod, fs, tiles_result, constructed, calls, call>>

\* find_lod_layers and fill_contour_layers, and the handling of its result
FillContours ==
    /\ pc = "fill"
    /\ LET lod_layer_names == find_lod_layers(args.keys, lod, args.layer_settings)
           r == fill_contour_layers(lod_layer_names, projection.collections)
       IN  IF r.tag = "Panic"
           THEN /\ pc' = "panic"
                /\ UNCHANGED <<projection, history, fill_result>>
           ELSE /\ pc' = "tiles"
                /\ projection' = [projection EXCEPT !.collections = r.collections]
                /\ fill_result' = r.ret
                /\ history' = Append(history, <<"fill", lod>>)
    /\ UNCHANGED <<args, projection_lod, fs, tiles_result, constructed, calls, call>>

\* build_lod_vector_tiles, and the handling of its result
BuildTiles ==
    /\ pc = "tiles"
    /\ LET r == build_lod_vector_tiles(fs, projection.collections, args.keys, lod,
                                       output_path \o <<lod>>)
       IN  /\ fs' = r.fs
           /\ tiles_result' = r.ret
    /\ history' = Append(history, <<"tiles", lod>>)
    /\ pc' = "decrease"
    /\ UNCHANGED <<args, projection, projection_lod, fill_result, constructed, calls, call>>

\* projection_lod = projection.decrease_lod(), then the loop test
DecreaseLod ==
    /\ pc = "decrease"
    /\ LET d == decrease_lod(projection)
       IN  /\ projection' = d.self
           /\ projection_lod' = d.ret
           /\ calls' = IF d.ret.tag = "Ok" THEN [calls EXCEPT !.ok = @ + 1]
                       ELSE [calls EXCEPT !.failed = @ + 1]
           /\ pc' = IF d.ret.tag = "Ok" THEN "simplify" ELSE "done"
    /\ history' = Append(history, <<"decrease", lod>>)
    /\ UNCHANGED <<args, fs, fill_result, tiles_result, constructed, call>>

Next == New \/ Simplify \/ FillContours \/ BuildTiles \/ DecreaseLod

Spec == Init /\ [][Next]_vars

(***************************************************************************)
(* The projector on its own: construction, then any number of              *)
(* decrease_lod calls.                                                     *)
(***************************************************************************)
TileSizes == {2048, TILE_SIZE}

ProjRegistries == Registries \cup {Layer1(N_foo, <<F_point>>)}

InitProjection ==
    /\ pc = "proj_new"
    /\ \E c \in ProjRegistries, w \in WorldSizes, m \in 0..MaxProjLod, t \in TileSizes :
         args = [collections |-> c, world_size |-> w, max_lod |-> m, tile_size |-> t]
    /\ projection = None
    /\ projection_lod = None
    /\ fs = InitialFs
    /\ fill_result = None
    /\ tiles_result = None
    /\ history = << >>
    /\ constructed = None
    /\ calls = [ok |-> 0, failed |-> 0]
    /\ call = NoCall

ProjNew ==
    /\ pc = "proj_new"
    /\ projection' = ArmaMaxLodTileProjection_new(args.collections, args.world_size,
                                                   args.max_lod, args.tile_size)
    /\ constructed' = projection'.collections
    /\ pc' = "proj"
    /\ UNCHANGED <<args, projection_lod, fs, fill_result, tiles_result, history, calls, call>>

ProjDecreaseLod ==
    /\ pc = "proj"
    /\ calls.failed < MaxFailedCalls
    /\ LET d == decrease_lod(projection)
       IN  /\ projection' = d.self
           /\ projection_lod' = d.ret
           /\ calls' = IF d.ret.tag = "Ok" THEN [calls EXCEPT !.ok = @ + 1]
                       ELSE [calls EXCEPT !.failed = @ + 1]
    /\ UNCHANGED <<pc, args, fs, fill_result, tiles_result, history, constructed, call>>

NextProjection == ProjNew \/ ProjDecreaseLod

SpecProjection == InitProjection /\ [][NextProjection]_vars

(***************************************************************************)
(* Single calls.  Each of the specifications below draws the arguments of  *)
(* one function from bounded sets and applies the function once.           *)
(***************************************************************************)
Idle ==
    /\ projection = None
    /\ projection_lod = None
    /\ fs = InitialFs
    /\ fill_result = None
    /\ tiles_result = None
    /\ history = << >>
    /\ constructed = None
    /\ calls = [ok |-> 0, failed |-> 0]
    /\ call = NoCall

unitFrame ==
    <<args, projection, projection_lod, fs, fill_result, tiles_result, history,
      constructed, calls>>

\* coordinates on, next to and between the tile boundaries; 4095.5 and 5000.5
PointValues ==
    {FromInt(v) : v \in {-1, 0, 1, 4095, 4096, 4097, 5000, 8192}}
        \cup {Norm(8191, -1), Norm(10001, -1)}

F_one == Feature(Point(FromInt(1), FromInt(1)), Props(105))
F_5000 == Feature(Point(FromInt(5000), FromInt(5000)), Props(104))

\* the registries create_tile is applied to, for a point p
TileRegistries(p) ==
    {EmptyRegistry,
     Layer1(N_foo, << >>),
     Layer1(N_foo, <<Feature(Point(p.x, p.y), Props(1)), F_multi, F_5000>>)
         @@ Layer1(N_bar, <<F_rect, F_one, Feature(Point(p.x, p.y), Props(2))>>)}

InitTile ==
    /\ pc = "tile_call"
    /\ \E x \in PointValues, y \in PointValues, col \in 0..MaxTile, row \in 0..MaxTile :
         \E c \in TileRegistries(Coord(x, y)) :
            \E k \in KeyOrders(DOMAIN c) :
               args = [point |-> Coord(x, y), col |-> col, row |-> row,
                       collections |-> c, keys |-> k]
    /\ Idle

\* the point clipped against the tile (col, row), its right and its lower neighbour
CallClipPoint ==
    /\ pc = "tile_call"
    /\ call' = [fn |-> "clip",
                point |-> args.point, col |-> args.col, row |-> args.row,
                result |-> ClipPoint(<<args.point>>, TileBorder(args.col, args.row)),
                right |-> ClipPoint(<<args.point>>, TileBorder(args.col + 1, args.row)),
                below |-> ClipPoint(<<args.point>>, TileBorder(args.col, args.row + 1))]
    /\ pc' = "returned"
    /\ UNCHANGED unitFrame

CallCreateTile ==
    /\ pc = "tile_call"
    /\ call' = [fn |-> "create_tile",
                col |-> args.col, row |-> args.row,
                collections |-> args.collections, keys |-> args.keys,
                result |-> create_tile(args.col, args.row, args.collections, args.keys)]
    /\ pc' = "returned"
    /\ UNCHANGED unitFrame

NextTile == CallClipPoint \/ CallCreateTile

SpecTile == InitTile /\ [][NextTile]_vars

\* find_lod_layers: the LODs asked for, among them the default maxzoom and the next
FindLods == 0..(MaxLod + 1) \cup {DEFAULT_MAXZOOM, DEFAULT_MAXZOOM + 1}

FindSettings ==
    {Setting(l, mn, mx) :
        l \in {N_foo, N_bar, N_water},
        mn \in {None, Some(1)},
        mx \in {None, Some(1), Some(DEFAULT_MAXZOOM + 45)}}

FindSettingsLists ==
    {<< >>} \cup {<<a>> : a \in FindSettings} \cup {<<a, b>> : a \in FindSettings, b \in FindSettings}

InitFind ==
    /\ pc = "find_call"
    /\ \E S \in SUBSET {N_foo, N_bar}, z \in FindLods, ls \in FindSettingsLists :
         \E k \in KeyOrders(S) :
            args = [keys |-> k, lod |-> z, layer_settings |-> ls]
    /\ Idle

CallFindLodLayers ==
    /\ pc = "find_call"
    /\ call' = [fn |-> "find_lod_layers",
                keys |-> args.keys, lod |-> args.lod, layer_settings |-> args.layer_settings,
                result |-> find_lod_layers(args.keys, args.lod, args.layer_settings)]
    /\ pc' = "returned"
    /\ UNCHANGED unitFrame

NextFind == CallFindLodLayers

SpecFind == InitFind /\ [][NextFind]_vars

\* fill_contour_layers: sub-layers as build_contours declares them (empty), named
\* with digits, with a sign, and with a letter
FillSuffixes == {<<"2">>, <<"0", "2">>, <<"0">>, <<"+", "2">>, <<"x">>, <<"3">>}

FillSubChoices ==
    {EmptyRegistry} \cup {Layer1(ContourLayer(sfx), << >>) : sfx \in FillSuffixes}

FillOtherChoices == {EmptyRegistry, Layer1(N_foo, <<F_centre>>)}

FillRegistries ==
    {b @@ s1 @@ s2 @@ o :
        b \in BaseChoices, s1 \in FillSubChoices, s2 \in FillSubChoices, o \in FillOtherChoices}

\* the names find_lod_layers may return for a registry: some of its keys, in any order
FillNames(c) == UNION {KeyOrders(S) : S \in SUBSET (DOMAIN c)}

InitFill ==
    /\ pc = "fill_call"
    /\ \E c \in FillRegistries :
         \E names \in FillNames(c) :
            args = [collections |-> c, lod_layer_names |-> names]
    /\ Idle

CallFillContourLayers ==
    /\ pc = "fill_call"
    /\ call' = [fn |-> "fill_contour_layers",
                collections |-> args.collections,
                lod_layer_names |-> args.lod_layer_names,
                result |-> fill_contour_layers(args.lod_layer_names, args.collections)]
    /\ pc' = "returned"
    /\ UNCHANGED unitFrame

NextFill == CallFillContourLayers

SpecFill == InitFill /\ [][NextFill]_vars

\* clip: the rectangle, and geometries inside, outside, across and along it
ClipRect == Rect_new(Coord(FromInt(0), FromInt(0)), Coord(FromInt(4), FromInt(4)))

ClipValues == {FromInt(v) : v \in {-2, 0, 1, 2, 4, 6}}

\* the differences for which every crossing point is representable
ClipSteps == {FromInt(v) : v \in {-8, -4, -2, -1, 0, 1, 2, 4, 8}}

ClipLines ==
    {Line(Coord(x1, y1), Coord(x2, y2)) :
        <<x1, y1, x2, y2>> \in
            {q \in ClipValues \X ClipValues \X ClipValues \X ClipValues :
                /\ <<q[1], q[2]>> # <<q[3], q[4]>>
                /\ FSub(q[3], q[1]) \in ClipSteps
                /\ FSub(q[4], q[2]) \in ClipSteps}}

ClipIntervals == {<<0, 4>>, <<1, 2>>, <<2, 6>>, <<-2, 0>>, <<5, 6>>, <<-2, 6>>}

RectRing(ix, iy) ==
    RectToPolygon([min |-> Coord(FromInt(ix[1]), FromInt(iy[1])),
                   max |-> Coord(FromInt(ix[2]), FromInt(iy[2]))])

ClipPolygonInputs == {Polygon(RectRing(ix, iy)) : ix \in ClipIntervals, iy \in ClipIntervals}

ClipRings == {RectRing(ix, <<0, 4>>) : ix \in ClipIntervals}

ClipMultiPolygons ==
    {MultiPolygon(<< >>)}
        \cup {MultiPolygon(<<r>>) : r \in ClipRings}
        \cup {MultiPolygon(<<r1, r2>>) : r1 \in ClipRings, r2 \in ClipRings}

ClipPoints == {Point(x, y) : x \in ClipValues, y \in ClipValues}

ClipGeometries == ClipLines \cup ClipPolygonInputs \cup ClipMultiPolygons \cup ClipPoints

InitClip ==
    /\ pc = "clip_call"
    /\ \E g \in ClipGeometries : args = [geometry |-> g, rect |-> ClipRect]
    /\ Idle

\* the geometry clipped against the rectangle, and the result clipped again
CallClip ==
    /\ pc = "clip_call"
    /\ LET result == GeometryClip(args.geometry, args.rect)
       IN  call' = [fn |-> "clip",
                    geometry |-> args.geometry, rect |-> args.rect,
                    result |-> result,
                    again |-> IF result.tag = "Some"
                              THEN GeometryClip(result.val, args.rect)
                              ELSE None]
    /\ pc' = "returned"
    /\ UNCHANGED unitFrame

NextClip == CallClip

SpecClip == InitClip /\ [][NextClip]_vars

\* simplify and remove_empty: a point, a multi-point, lines of length 2 and 5,
\* an empty, a bent and a multi line string, squares of area 1 and 4 and a
\* multi-polygon of two unit squares
P(x, y) == Coord(FromInt(x), FromInt(y))

Square(x, y, side) == <<P(x, y), P(x, y + side), P(x + side, y + side), P(x + side, y), P(x, y)>>

SimplifyGeometries ==
    {Point(FromInt(1), FromInt(1)),
     MultiPoint(<<P(0, 0), P(2, 2)>>),
     Line(P(0, 0), P(2, 0)),
     Line(P(0, 0), P(3, 4)),
     LineString(<< >>),
     LineString(<<P(0, 0), P(2, 0), P(2, 1)>>),
     MultiLineString(<< <<P(0, 0), P(1, 0), P(2, 0)>> >>),
     Polygon(Square(0, 0, 1)),
     Polygon(Square(0, 0, 2)),
     MultiPolygon(<<Square(0, 0, 1), Square(4, 4, 1)>>)}

\* the collections of n features; the i-th carries the id i
SimplifyCollections(n) ==
    {[i \in 1..n |-> Feature(gs[i], Props(i))] : gs \in [1..n -> SimplifyGeometries]}

SimplifyCalls ==
    {[fn |-> "remove_empty", line_limit |-> FromInt(l), area_limit |-> FromInt(a)] :
        l \in {0, 2, 3}, a \in {0, 1, 2}}
        \cup {[fn |-> "simplify", epsilon |-> FromInt(eps)] : eps \in {0, 1}}

InitSimplify ==
    /\ pc = "simplify_call"
    /\ \E n \in 0..MaxFeatures, c \in SimplifyCalls :
         \E fc \in SimplifyCollections(n) : args = [fc |-> fc, params |-> c]
    /\ Idle

CallRemoveEmpty ==
    /\ pc = "simplify_call"
    /\ args.params.fn = "remove_empty"
    /\ call' = [fn |-> "remove_empty", fc |-> args.fc,
                line_limit |-> args.params.line_limit,
                area_limit |-> args.params.area_limit,
                result |-> remove_empty(args.fc, args.params.line_limit,
                                        args.params.area_limit)]
    /\ pc' = "returned"
    /\ UNCHANGED unitFrame

CallSimplify ==
    /\ pc = "simplify_call"
    /\ args.params.fn = "simplify"
    /\ call' = [fn |-> "simplify", fc |-> args.fc, epsilon |-> args.params.epsilon,
                result |-> simplify(args.fc, args.params.epsilon)]
    /\ pc' = "returned"
    /\ UNCHANGED unitFrame

NextSimplify == CallRemoveEmpty \/ CallSimplify

SpecSimplify == InitSimplify /\ [][NextSimplify]_vars

\* build_mounts: rasters of three rows or three columns and a side of up to
\* MaxDemSide cells.  The inner cells take every elevation of DemElevations;
\* the border is at sea level but for at most one cell as high as the highest
\* inner elevation.
DemDimensions ==
    {<<w, 3>> : w \in 1..MaxDemSide} \cup {<<3, h>> : h \in 1..MaxDemSide}

DemElevations == {0, 1, 2}

IsInner(w, h, i) ==
    LET col == (i - 1) % w
        row == (i - 1) \div w
    IN  0 < col /\ col < w - 1 /\ 0 < row /\ row < h - 1

DemData(w, h) ==
    LET inner_cells == {i \in 1..(w * h) : IsInner(w, h, i)}
    IN  {[i \in 1..(w * h) |->
            IF i \in inner_cells THEN inner[i] ELSE IF i = high THEN 2 ELSE 0] :
                inner \in [inner_cells -> DemElevations],
                high \in {0} \cup ((1..(w * h)) \ inner_cells)}

DemRaster(wh, d) ==
    [columns |-> wh[1], rows |-> wh[2],
     left |-> FromInt(0), bottom |-> FromInt(0), cell_size |-> FromInt(10),
     no_data_value |-> FromInt(-9999),
     data |-> [i \in 1..(wh[1] * wh[2]) |-> FromInt(d[i])]]

\* 0, 0.5 and -2
ElevationOffsets == {FromInt(0), Norm(1, -1), FromInt(-2)}

MountRegistries == {EmptyRegistry, Layer1(N_mounts, <<F_point>>) @@ Layer1(N_foo, <<F_centre>>)}

InitMounts ==
    /\ pc = "mounts_call"
    /\ \E wh \in DemDimensions, off \in ElevationOffsets, c \in MountRegistries,
          checks \in BOOLEAN :
         /\ (wh[1] <= wh[2] + 2) => checks
         /\ \E d \in DemData(wh[1], wh[2]) :
               args = [dem |-> DemRaster(wh, d), elevation_offset |-> off,
                       collections |-> c, overflow_checks |-> checks]
    /\ Idle

CallBuildMounts ==
    /\ pc = "mounts_call"
    /\ call' = [fn |-> "build_mounts", dem |-> args.dem,
                elevation_offset |-> args.elevation_offset,
                collections |-> args.collections,
                overflow_checks |-> args.overflow_checks,
                result |-> build_mounts(args.dem, args.elevation_offset, args.collections,
                                        args.overflow_checks)]
    /\ pc' = "returned"
    /\ UNCHANGED unitFrame

NextMounts == CallBuildMounts

SpecMounts == InitMounts /\ [][NextMounts]_vars

\* build_contours: rasters of one row with up to MaxContourCells cells, and of
\* 2 x 2 cells; the samples are the no-data value, -1.5, -0.5, 0, 0.5, 2.5 and 2^63
ContourSamples ==
    {FromInt(-9999), Norm(-3, -1), Norm(-1, -1), FromInt(0), Norm(1, -1), Norm(5, -1),
     Norm(1, I64_BITS - 1)}

ContourDimensions == {<<w, 1>> : w \in 1..MaxContourCells} \cup {<<2, 2>>}

ContourRaster(wh, d) ==
    [columns |-> wh[1], rows |-> wh[2],
     left |-> FromInt(0), bottom |-> FromInt(0), cell_size |-> FromInt(10),
     no_data_value |-> FromInt(-9999),
     data |-> d]

ContourRegistries ==
    {EmptyRegistry,
     Layer1(N_contours_slash \o <<"0", "5">>, <<F_point>>) @@ Layer1(N_foo, <<F_centre>>),
     Layer1(N_contours_01, <<F_point>>)}

InitContours ==
    /\ pc = "contours_call"
    /\ \E wh \in ContourDimensions, c \in ContourRegistries :
         \E d \in [1..(wh[1] * wh[2]) -> ContourSamples] :
            args = [dem |-> ContourRaster(wh, d), elevation_offset |-> FromInt(0),
                    world_size |-> 2048, collections |-> c]
    /\ Idle

CallBuildContours ==
    /\ pc = "contours_call"
    /\ call' = [fn |-> "build_contours", dem |-> args.dem,
                world_size |-> args.world_size, collections |-> args.collections,
                result |-> build_contours(args.dem, args.elevation_offset, args.world_size,
                                          args.collections)]
    /\ pc' = "returned"
    /\ UNCHANGED unitFrame

NextContours == CallBuildContours

SpecContours == InitContours /\ [][NextContours]_vars

\* calc_max_lod: every world size up to MaxWorldSize; the call is made for the
\* world size and for the next larger one
MaxLodTileSizes == {0, 1, 3, 256, 2048, TILE_SIZE}

InitMaxLod ==
    /\ pc = "max_lod_call"
    /\ \E w \in 1..MaxWorldSize, t \in MaxLodTileSizes :
         args = [world_size |-> w, tile_size |-> t]
    /\ Idle

CallCalcMaxLod ==
    /\ pc = "max_lod_call"
    /\ call' = [fn |-> "calc_max_lod", world_size |-> args.world_size,
                tile_size |-> args.tile_size,
                result |-> calc_max_lod(args.world_size, args.tile_size),
                larger |-> calc_max_lod(args.world_size + 1, args.tile_size)]
    /\ pc' = "returned"
    /\ UNCHANGED unitFrame

NextMaxLod == CallCalcMaxLod

SpecMaxLod == InitMaxLod /\ [][NextMaxLod]_vars

(***************************************************************************)
(* One iteration's tile phase of build_vector_tiles on an output tree that *)
(* may refuse a directory, and the value the command returns after it.     *)
(***************************************************************************)
NoFiles == [f \in {} |-> None]

\* the output tree before the LOD is written: intact, without the output
\* directory, with a file where the LOD directory goes, with a file where
\* the directory of a column goes
TileSetFs(z) ==
    {InitialFs,
     [dirs |-> {}, files |-> NoFiles],
     [dirs |-> {output_path}, files |-> (output_path \o <<z>>) :> None]}
        \cup {[dirs |-> {output_path}, files |-> (output_path \o <<z, col>>) :> None] :
                 col \in 0..(TilesPerDimension(z) - 1)}

InitTileSet ==
    /\ pc = "tileset_call"
    /\ \E z \in 0..MaxLod :
         \E c \in TileRegistries(Coord(FromInt(1), FromInt(1))), f \in TileSetFs(z) :
            \E k \in KeyOrders(DOMAIN c) :
               /\ args = [lod |-> z, collections |-> c, keys |-> k, fs |-> f]
               /\ fs = f
    /\ projection = None
    /\ projection_lod = None
    /\ fill_result = None
    /\ tiles_result = None
    /\ history = << >>
    /\ constructed = None
    /\ calls = [ok |-> 0, failed |-> 0]
    /\ call = NoCall

CallBuildLodVectorTiles ==
    /\ pc = "tileset_call"
    /\ LET r == build_lod_vector_tiles(fs, args.collections, args.keys, args.lod,
                                       output_path \o <<args.lod>>)
       IN  /\ fs' = r.fs
           /\ tiles_result' = r.ret
           /\ call' = [fn |-> "build_lod_vector_tiles", lod |-> args.lod, result |-> r.ret]
    /\ pc' = "tileset_returned"
    /\ UNCHANGED <<args, projection, projection_lod, fill_result, history, constructed, calls>>

\* .unwrap_or_else(|err| println!(..)) on the result, and the Ok(()) that
\* build_vector_tiles returns once its loop has ended
ReturnFromBuildVectorTiles ==
    /\ pc = "tileset_returned"
    /\ call' = [fn |-> "build_vector_tiles", lod |-> args.lod,
                printed |-> IF tiles_result.tag = "Err" THEN <<tiles_result.msg>> ELSE << >>,
                result |-> Ok("unit")]
    /\ pc' = "returned"
    /\ UNCHANGED unitFrame

NextTileSet == CallBuildLodVectorTiles \/ ReturnFromBuildVectorTiles

SpecTileSet == InitTileSet /\ [][NextTileSet]_vars

(***************************************************************************)
(* load_geo_jsons on a directory tree.                                     *)
(***************************************************************************)
\* a.geojson.gz, b.geojson.gz, a/b.geojson.gz, a.gz.geojson.gz, a file with
\* the extension twice, a file below a directory a.geojson.gz, and a file
\* the walk passes over
LoadPaths ==
    {<<"a">> \o GEOJSON_GZ,
     <<"b">> \o GEOJSON_GZ,
     <<"a", "/", "b">> \o GEOJSON_GZ,
     <<"a", ".gz">> \o GEOJSON_GZ,
     <<"a">> \o GEOJSON_GZ \o GEOJSON_GZ,
     <<"a">> \o GEOJSON_GZ \o <<"/", "b">> \o GEOJSON_GZ,
     <<"b", ".gz">>}

GeoJsonFeature(g, props) == [geometry |-> g, properties |-> props]

LoadContents ==
    {Ok(<<GeoJsonFeature(Some(Point(FromInt(1), FromInt(2))), Props(1))>>),
     Ok(<<GeoJsonFeature(None, Props(2)),
          GeoJsonFeature(Some(Point(FromInt(3), FromInt(4))), Props(3))>>),
     Err("invalid gzip header"),
     Err("expected value at line 1 column 1")}

LoadRegistries == {EmptyRegistry, Layer1(<<"a">>, <<F_point>>)}

InitLoad ==
    /\ pc = "load_call"
    /\ \E n \in 0..MaxFiles :
         \E paths \in [1..n -> LoadPaths], contents \in [1..n -> LoadContents],
            c \in LoadRegistries :
            /\ \A i, j \in 1..n : i # j => paths[i] # paths[j]
            /\ args = [listing |-> [i \in 1..n |-> [path |-> paths[i], content |-> contents[i]]],
                       collections |-> c]
    /\ Idle

CallLoadGeoJsons ==
    /\ pc = "load_call"
    /\ call' = [fn |-> "load_geo_jsons",
                listing |-> args.listing, collections |-> args.collections,
                result |-> load_geo_jsons(args.listing, args.collections)]
    /\ pc' = "returned"
    /\ UNCHANGED unitFrame

NextLoad == CallLoadGeoJsons

SpecLoad == InitLoad /\ [][NextLoad]_vars

(***************************************************************************)
(* build_vector_tiles on contour lines: the base layer holds one line per  *)
(* meter, the i-th at elevation i with the property id = i, short enough   *)
(* or not to be pruned below the maximal LOD.                              *)
(***************************************************************************)
\* lengths in world units: 3 is pruned at the first LOD below the maximal, 8 never
ContourLineLengths == {3, 8}

ContourLine(i, len) ==
    Feature(LineString(<<Coord(FromInt(0), FromInt(i)), Coord(FromInt(len), FromInt(i))>>),
            Props(i))

InitContourLines ==
    /\ pc = "new"
    /\ \E n \in 1..MaxContourLines, m \in 0..MaxLod, ls \in SettingsChoices :
         \E lens \in [1..n -> ContourLineLengths] :
            \E k \in KeyOrders({N_contours, ContourLayer(<<"2">>)}) :
               args = [collections |->
                           Layer1(N_contours, [i \in 1..n |-> ContourLine(i - 1, lens[i])])
                               @@ Layer1(ContourLayer(<<"2">>), << >>),
                       world_size |-> 256, max_lod |-> m,
                       keys |-> k, layer_settings |-> ls]
    /\ projection = None
    /\ projection_lod = None
    /\ fs = InitialFs
    /\ fill_result = None
    /\ tiles_result = None
    /\ history = << >>
    /\ constructed = None
    /\ calls = [ok |-> 0, failed |-> 0]
    /\ call = NoCall

SpecContourLines == InitContourLines /\ [][Next]_vars

(***************************************************************************)
(* create_tile on lines, polygons, multi-polygons and points that lie in,  *)
(* next to, across and along the tiles: the geometries of the clip calls   *)
(* above at 1024 tile units per unit, on the grid and, except for the      *)
(* lines (whose crossing points are exact on the grid), half a unit off.   *)
(***************************************************************************)
TileGeometryShifts == {FromInt(0), Norm(1, -1)}

TileGeometry(g, shift) ==
    GeometryMapCoords(g, LAMBDA c : Coord(FAdd(FMul(c.x, FromInt(1024)), shift),
                                          FAdd(FMul(c.y, FromInt(1024)), shift)))

InitTileGeometry ==
    /\ pc = "tile_call"
    /\ \E g \in ClipGeometries, col \in 0..MaxTile, row \in 0..MaxTile :
         \E shift \in IF g.kind = "Line" THEN {FromInt(0)} ELSE TileGeometryShifts :
            args = [col |-> col, row |-> row,
                    collections |-> Layer1(N_foo, <<Feature(TileGeometry(g, shift), Props(1)),
                                                    F_5000>>),
                    keys |-> <<N_foo>>]
    /\ Idle

NextTileGeometry == CallCreateTile

SpecTileGeometry == InitTileGeometry /\ [][NextTileGeometry]_vars

(***************************************************************************)
(* The simplification phase, task by task.                                 *)
(***************************************************************************)
F_long == Feature(Line(P(0, 0), P(200, 0)), Props(201))
F_short == Feature(Line(P(0, 0), P(50, 0)), Props(202))
F_bent == Feature(LineString(<<P(0, 0), P(150, 0), P(300, 1)>>), Props(203))
F_small == Feature(Polygon(Square(0, 0, 8)), Props(204))
F_large == Feature(Polygon(Square(0, 0, 16)), Props(205))

TaskLayers ==
    Layer1(N_water, <<F_short, F_long, F_point>>)
        @@ Layer1(N_foo, <<F_bent, F_small, F_large>>)
        @@ Layer1(N_house, <<F_small, F_large, F_short>>)
        @@ Layer1(N_railway, <<F_bent>>)
        @@ Layer1(N_bar, <<F_rect>>)
        @@ Layer1(N_mount, <<F_point>>)
        @@ Layer1(LocationLayer(<<"x">>), <<F_rect, F_point>>)

InitTasks ==
    /\ pc = "tasks_fork"
    /\ \E names \in SUBSET DOMAIN TaskLayers, m \in BOOLEAN :
         /\ Cardinality(names) <= MaxTaskLayers
         /\ args = [collections |-> [name \in names |-> TaskLayers[name]],
                    max_lod_now |-> m]
         /\ projection = [collections |-> [name \in names |-> TaskLayers[name]]]
    /\ projection_lod = None
    /\ fs = InitialFs
    /\ fill_result = None
    /\ tiles_result = None
    /\ history = << >>
    /\ constructed = None
    /\ calls = [ok |-> 0, failed |-> 0]
    /\ call = NoCall

\* par_iter_mut().for_each(..): one task per layer
ForkTasks ==
    /\ pc = "tasks_fork"
    /\ call' = [fn |-> "for_each",
                todo |-> [name \in DOMAIN projection.collections |->
                             TaskOps(name, args.max_lod_now)],
                panicked |-> {}]
    /\ pc' = "tasks"
    /\ UNCHANGED unitFrame

\* the next call of the task of one layer
TaskStep(name) ==
    /\ pc = "tasks"
    /\ name \in DOMAIN call.todo
    /\ name \notin call.panicked
    /\ call.todo[name] # << >>
    /\ LET r == ApplyOp(Head(call.todo[name]), TaskCollection(projection.collections, name))
       IN  IF r.tag = "Panic"
           THEN /\ call' = [call EXCEPT !.panicked = @ \cup {name}]
                /\ UNCHANGED projection
           ELSE /\ call' = [call EXCEPT !.todo[name] = Tail(@)]
                /\ projection' = [projection EXCEPT !.collections[name] = r.fc]
    /\ UNCHANGED <<pc, args, projection_lod, fs, fill_result, tiles_result, history,
                   constructed, calls>>

\* for_each returns, or re-raises the panic of a task
JoinTasks ==
    /\ pc = "tasks"
    /\ \/ /\ call.panicked # {}
          /\ pc' = "panic"
       \/ /\ call.panicked = {}
          /\ \A name \in DOMAIN call.todo : call.todo[name] = << >>
          /\ pc' = "joined"
    /\ UNCHANGED <<args, projection, projection_lod, fs, fill_result, tiles_result,
                   history, constructed, calls, call>>

NextTasks ==
    \/ ForkTasks
    \/ \E name \in DOMAIN TaskLayers : TaskStep(name)
    \/ JoinTasks

SpecTasks == InitTasks /\ [][NextTasks]_vars

(***************************************************************************)
(* Properties.  The helpers below state what the claims say in exact       *)
(* integer arithmetic on the representation m * 2^e.                       *)
(***************************************************************************)
\* a * 2^ea = b * 2^eb
ExactEq(a, ea, b, eb) ==
    LET e == Min2(ea, eb) IN a * 2^(ea - e) = b * 2^(eb - e)

\* the number d is the number c divided by 2^j
DividedBy(c, d, j) == d.m = c.m /\ (c.m = 0 \/ d.e = c.e - j)

\* the value of an integer-valued number
IntOf(a) == a.m * 2^a.e

\* registry r2 is registry r1 with every coordinate divided by 2^j and nothing else changed
RegistryDividedBy(r1, r2, j) ==
    /\ DOMAIN r2 = DOMAIN r1
    /\ \A name \in DOMAIN r1 :
         /\ Len(r2[name]) = Len(r1[name])
         /\ \A i \in 1..Len(r1[name]) :
              LET g1 == r1[name][i].geometry
                  g2 == r2[name][i].geometry
              IN  /\ r2[name][i].properties = r1[name][i].properties
                  /\ g2.kind = g1.kind
                  /\ Len(g2.coords) = Len(g1.coords)
                  /\ \A k \in 1..Len(g1.coords) :
                       /\ DividedBy(g1.coords[k].x, g2.coords[k].x, j)
                       /\ DividedBy(g1.coords[k].y, g2.coords[k].y, j)

\* C1: a decrease_lod call made while current_lod > 0 succeeds, divides every
\* coordinate of every feature of every layer by 2, decrements current_lod by
\* exactly 1 and returns the new value, so that after the j-th successful call
\* current_lod = max_lod - j and every coordinate is its post-construction value
\* divided by 2^j; a call made while current_lod = 0 fails.
C1_DecreaseLod ==
    [][pc = "proj" =>
         IF projection.current_lod > 0
         THEN /\ projection_lod' = Ok(projection.current_lod - 1)
              /\ projection'.current_lod = projection.current_lod - 1
              /\ RegistryDividedBy(projection.collections, projection'.collections, 1)
              /\ projection'.current_lod = args.max_lod - calls'.ok
              /\ RegistryDividedBy(constructed, projection'.collections, calls'.ok)
         ELSE projection_lod'.tag = "Err"]_vars

\* the scenario of the test: three successful calls, then a fourth that fails
C1_Witness ==
    /\ pc = "proj"
    /\ args.collections = Layer1(N_foo, <<F_point>>)
    /\ args.world_size = 1024 /\ args.max_lod = 3 /\ args.tile_size = 2048
    /\ calls = [ok |-> 3, failed |-> 1]
    /\ projection.current_lod = 0
    /\ projection_lod.tag = "Err"

RECURSIVE PhaseLods(_, _)
PhaseLods(h, phase) ==
    IF h = << >> THEN << >>
    ELSE (IF Head(h)[1] = phase THEN <<Head(h)[2]>> ELSE << >>) \o PhaseLods(Tail(h), phase)

\* <<m, m - 1, ..., 0>>
Descending(m) == [i \in 1..(m + 1) |-> m + 1 - i]

\* C2: build_vector_tiles called with max_lod = M always terminates, and it runs
\* the per-LOD body (simplify, fill contour sub-layers, encode tiles) exactly once
\* for each lod M, M-1, ..., 0, in strictly decreasing order.
C2_EveryLodOnce ==
    pc \in {"done", "panic"} =>
        /\ pc = "done"
        /\ PhaseLods(history, "simplify") = Descending(args.max_lod)
        /\ PhaseLods(history, "fill") = Descending(args.max_lod)
        /\ PhaseLods(history, "tiles") = Descending(args.max_lod)

PhaseNames == <<"simplify", "fill", "tiles", "decrease">>

\* the phases completed so far are a prefix of simplify, fill, tiles, decrease at
\* max_lod, then the same at max_lod - 1, and so on
HistoryOrdered ==
    \A i \in 1..Len(history) :
        history[i] = <<PhaseNames[((i - 1) % 4) + 1], args.max_lod - ((i - 1) \div 4)>>

\* C3: within one LOD iteration simplification completes before contour filling
\* starts and contour filling before tile encoding; tile encoding of LOD z+1
\* completes before the simplification of LOD z starts, and decrease_lod (the
\* halving of every coordinate) is the only change made to the registry between
\* the two.
C3_PhaseOrder ==
    /\ []HistoryOrdered
    /\ [][/\ pc = "tiles" => projection' = projection /\ pc' = "decrease"
          /\ pc = "decrease" =>
               /\ RegistryDividedBy(projection.collections, projection'.collections, 1)
               /\ pc' \in {"simplify", "done"}
          /\ pc' = "simplify" => pc \in {"new", "decrease"}
          /\ pc' = "fill" => pc = "simplify"
          /\ pc' = "tiles" => pc = "fill"]_vars

\* the simplification of LOD max_lod - 1 has completed on a registry with features
C3_Witness ==
    /\ Len(history) >= 5
    /\ history[4] = <<"decrease", args.max_lod>>
    /\ history[5] = <<"simplify", args.max_lod - 1>>
    /\ \E name \in DOMAIN projection.collections : projection.collections[name] # << >>

FilesOfLod(z) == {path \in DOMAIN fs.files : path[2] = z}
DirsOfLod(z) == {path \in fs.dirs : Len(path) >= 2 /\ path[2] = z}
TilesDone(z) == \E i \in 1..Len(history) : history[i] = <<"tiles", z>>

\* C4: build_lod_vector_tiles for LOD z writes exactly one tile for every (col, row)
\* in [0, 2^z) x [0, 2^z), at <lod_dir>/<col>/<row>.pbf, creating the LOD directory
\* and every column directory 0..2^z-1 and no other; with an empty registry the
\* tiles are empty and the call returns Ok; a run with max_lod = 0 yields exactly
\* one tile, at LOD 0.
C4_TileSet ==
    /\ \A z \in 0..MaxLod :
         IF TilesDone(z)
         THEN /\ FilesOfLod(z) =
                   {<<"out", z, col, [stem |-> row, ext |-> "pbf"]>> :
                        col \in 0..(2^z - 1), row \in 0..(2^z - 1)}
              /\ Cardinality(FilesOfLod(z)) = (2^z) * (2^z)
              /\ DirsOfLod(z) = {<<"out", z>>} \cup {<<"out", z, col>> : col \in 0..(2^z - 1)}
         ELSE FilesOfLod(z) = {} /\ DirsOfLod(z) = {}
    /\ args.collections = EmptyRegistry =>
         /\ tiles_result \in {None, Ok("unit")}
         /\ \A path \in DOMAIN fs.files : fs.files[path].layers = << >>
    /\ (pc = "done" /\ args.max_lod = 0) =>
         DOMAIN fs.files = {<<"out", 0, 0, [stem |-> 0, ext |-> "pbf"]>>}

\* the four tiles of LOD 1 of an empty registry are written
C4_Witness ==
    /\ args.collections = EmptyRegistry
    /\ pc = "decrease"
    /\ projection_lod = Ok(1)
    /\ tiles_result = Ok("unit")
    /\ Cardinality(FilesOfLod(1)) = 4

\* C7: without a base layer `contours`, fill_contour_layers returns an error
\* without panicking and without modifying any layer, and the LOD loop treats it
\* as recoverable: it still runs the tile encoder for that LOD and goes on with
\* the next LOD.
C7_MissingContoursRecoverable ==
    [][/\ (pc = "fill" /\ N_contours \notin DOMAIN projection.collections) =>
            /\ pc' = "tiles"
            /\ fill_result'.tag = "Err"
            /\ projection' = projection
       /\ (pc = "tiles" /\ fill_result.tag = "Err") =>
            /\ pc' = "decrease"
            /\ history' = Append(history, <<"tiles", lod>>)
            /\ <<"out", lod, 0, [stem |-> 0, ext |-> "pbf"]>> \in DOMAIN fs'.files
       /\ (pc = "decrease" /\ fill_result.tag = "Err" /\ lod > 0) =>
            /\ pc' = "simplify"
            /\ projection_lod' = Ok(lod - 1)]_vars

\* the fill of a LOD below max_lod has failed again: the loop went on after the
\* first failure
C7_Witness ==
    /\ pc = "tiles"
    /\ fill_result.tag = "Err"
    /\ lod < args.max_lod
    /\ TilesDone(args.max_lod)
    /\ DOMAIN projection.collections # {}

\* twice the value of a number with at most one binary place
Twice(a) == a.m * 2^(a.e + 1)

\* the point p lies in the closed square of tile (col, row)
InClosedTile(p, col, row) ==
    /\ 2 * 4096 * col <= Twice(p.x) /\ Twice(p.x) <= 2 * 4096 * (col + 1)
    /\ 2 * 4096 * row <= Twice(p.y) /\ Twice(p.y) <= 2 * 4096 * (row + 1)

\* what clipping the point p against the tile (col, row) must give
ExpectedClip(p, col, row) == IF InClosedTile(p, col, row) THEN Some(<<p>>) ELSE None

\* C10: clipping a point against a rectangle returns the same point iff
\* rect.min.x <= p.x <= rect.max.x and rect.min.y <= p.y <= rect.max.y, boundaries
\* inclusive, and None otherwise; hence a point exactly on the boundary shared by
\* two adjacent tiles is included in both.
C10_ClipPoint ==
    call.fn = "clip" =>
        /\ call.result = ExpectedClip(call.point, call.col, call.row)
        /\ call.right = ExpectedClip(call.point, call.col + 1, call.row)
        /\ call.below = ExpectedClip(call.point, call.col, call.row + 1)
        /\ (InClosedTile(call.point, call.col, call.row)
              /\ Twice(call.point.x) = 2 * 4096 * (call.col + 1))
             => call.result.tag = "Some" /\ call.right.tag = "Some"
        /\ (InClosedTile(call.point, call.col, call.row)
              /\ Twice(call.point.y) = 2 * 4096 * (call.row + 1))
             => call.result.tag = "Some" /\ call.below.tag = "Some"

\* the point (4096, 1) is kept by tile (0, 0) and by its right neighbour
C10_Witness ==
    /\ call.fn = "clip"
    /\ call.col = 0 /\ call.row = 0
    /\ Twice(call.point.x) = 2 * 4096 /\ Twice(call.point.y) = 2
    /\ call.result = Some(<<call.point>>)
    /\ call.right = Some(<<call.point>>)
    /\ call.below = None

\* n / 2 truncated toward zero
TruncHalf(n) == IF n >= 0 THEN n \div 2 ELSE -((-n) \div 2)

\* the rectangle min = (col * 4096, row * 4096), max = min + (4096, 4096)
ClaimTileRect(col, row) ==
    [min |-> Coord(FromInt(col * 4096), FromInt(row * 4096)),
     max |-> Coord(FromInt(col * 4096 + 4096), FromInt(row * 4096 + 4096))]

\* the features a tile layer must hold: for each feature whose clip is not None,
\* the clipped coordinates minus min, truncated, with the feature's properties
RECURSIVE ExpectedTileFeatures(_, _, _)
ExpectedTileFeatures(fc, col, row) ==
    IF fc = << >> THEN << >>
    ELSE LET clipped == GeometryClip(Head(fc).geometry, ClaimTileRect(col, row))
         IN  (IF clipped.tag = "None" THEN << >>
              ELSE <<[geometry |->
                         [kind |-> clipped.val.kind,
                          coords |-> [k \in DOMAIN clipped.val.coords |->
                              Coord(TruncHalf(Twice(clipped.val.coords[k].x) - 2 * 4096 * col),
                                    TruncHalf(Twice(clipped.val.coords[k].y) - 2 * 4096 * row))]],
                      properties |-> Head(fc).properties]>>)
             \o ExpectedTileFeatures(Tail(fc), col, row)

\* the features of the tile layer with the given name
TileLayerFeatures(tile, name) ==
    LET i == CHOOSE j \in DOMAIN tile.layers : tile.layers[j].name = name
    IN  tile.layers[i].features

\* C5: create_tile(col, row): for every layer, a feature is present in the tile
\* layer iff clipping its geometry against the rectangle min = (col*4096, row*4096),
\* max = min + (4096, 4096) is not None; each emitted feature has the clipped
\* coordinates minus min, truncated toward zero to integers, and a copy of the
\* original properties (a point at (1,1) gives (1,1) in tile (0,0); a point at
\* (5000,5000) gives (904,904) in tile (1,1) and is absent from tile (0,0)).
C5_CreateTile ==
    call.fn = "create_tile" =>
        /\ call.result.tag = "Ok"
        /\ Len(call.result.val.layers) = Cardinality(DOMAIN call.collections)
        /\ \A name \in DOMAIN call.collections :
             /\ \E j \in DOMAIN call.result.val.layers : call.result.val.layers[j].name = name
             /\ TileLayerFeatures(call.result.val, name)
                    = ExpectedTileFeatures(call.collections[name], call.col, call.row)
        /\ (N_bar \in DOMAIN call.collections /\ call.col = 0 /\ call.row = 0) =>
             \E i \in DOMAIN TileLayerFeatures(call.result.val, N_bar) :
                 TileLayerFeatures(call.result.val, N_bar)[i] =
                     [geometry |-> [kind |-> "Point", coords |-> <<Coord(1, 1)>>],
                      properties |-> F_one.properties]
        /\ (N_foo \in DOMAIN call.collections /\ call.collections[N_foo] # << >>) =>
             LET emitted == {TileLayerFeatures(call.result.val, N_foo)[i] :
                                i \in DOMAIN TileLayerFeatures(call.result.val, N_foo)}
             IN  /\ (call.col = 1 /\ call.row = 1) =>
                        [geometry |-> [kind |-> "Point", coords |-> <<Coord(904, 904)>>],
                         properties |-> F_5000.properties] \in emitted
                 /\ (call.col = 0 /\ call.row = 0) =>
                        \A f \in emitted : f.properties # F_5000.properties

\* tile (1, 1) of a registry whose layer foo holds the points (5000.5, 4096) and
\* (5000, 5000): both are emitted, as (904, 0) and (904, 904)
C5_Witness ==
    /\ call.fn = "create_tile"
    /\ call.col = 1 /\ call.row = 1
    /\ N_foo \in DOMAIN call.collections
    /\ Len(call.collections[N_foo]) = 3
    /\ Twice(call.collections[N_foo][1].geometry.coords[1].x) = 10001
    /\ Twice(call.collections[N_foo][1].geometry.coords[1].y) = 2 * 4096
    /\ call.result.tag = "Ok"
    /\ TileLayerFeatures(call.result.val, N_foo) =
          <<[geometry |-> [kind |-> "Point", coords |-> <<Coord(904, 0)>>],
             properties |-> Props(1)],
            [geometry |-> [kind |-> "Point", coords |-> <<Coord(904, 904)>>],
             properties |-> F_5000.properties]>>

\* the layer names returned, as a set
Returned == {call.result[i] : i \in DOMAIN call.result}

\* some setting names the layer k and admits z; `unbounded` says what a missing
\* maxzoom admits
Visible(k, z, settings, unbounded(_)) ==
    \E i \in DOMAIN settings :
        /\ settings[i].layer = k
        /\ settings[i].minzoom.tag = "None" \/ settings[i].minzoom.val <= z
        /\ IF settings[i].maxzoom.tag = "None" THEN unbounded(z)
           ELSE z <= settings[i].maxzoom.val

FindLodLayersReturns(unbounded(_)) ==
    call.fn = "find_lod_layers" =>
        /\ Returned = {k \in {call.keys[i] : i \in DOMAIN call.keys} :
                          Visible(k, call.lod, call.layer_settings, unbounded)}
        /\ Len(call.result) = Cardinality(Returned)

\* C8 (as stated): find_lod_layers(all_layers, z, settings) returns exactly the
\* layer names of all_layers for which some setting has the same name and
\* minzoom <= z <= maxzoom, where a missing minzoom or maxzoom imposes no bound at
\* any z; a layer with no matching setting is never returned and a setting whose
\* layer is not in all_layers adds nothing.
C8_FindLodLayers_AsStated == FindLodLayersReturns(LAMBDA z : TRUE)

\* C8 (amended): the same, where a missing minzoom imposes no bound and a missing
\* maxzoom stands for 255: it admits every z <= 255 and no z above.
C8_FindLodLayers == FindLodLayersReturns(LAMBDA z : z <= 255)

\* a layer with an open-ended setting and a layer whose setting ends at 1, asked at
\* LOD 2, with a further setting for a layer that is not there
C8_Witness ==
    /\ call.fn = "find_lod_layers"
    /\ call.lod = 2
    /\ call.keys = <<N_bar, N_foo>>
    /\ call.layer_settings = <<Setting(N_foo, Some(1), None), Setting(N_water, None, None)>>
    /\ call.result = <<N_foo>>

\* the value of a string of decimal digits
RECURSIVE DecimalValue(_)
DecimalValue(s) ==
    IF s = << >> THEN 0
    ELSE 10 * DecimalValue(SubSeq(s, 1, Len(s) - 1))
         + (CHOOSE d \in 0..9 : ToString(d) = s[Len(s)])

\* the name has the form contours/<N>: the prefix, then one or more decimal digits
IsContoursN(name) ==
    /\ Len(name) > Len(N_contours) + 1
    /\ SubSeq(name, 1, Len(N_contours)) = N_contours
    /\ name[Len(N_contours) + 1] = "/"
    /\ \A i \in (Len(N_contours) + 2)..Len(name) : \E d \in 0..9 : ToString(d) = name[i]

IntervalOf(name) == DecimalValue(SubSeq(name, Len(N_contours) + 2, Len(name)))

\* the elements of base at the indices 0, n, 2n, ...
EveryNth(base, n) == [i \in 1..((Len(base) + n - 1) \div n) |-> base[(i - 1) * n + 1]]

\* C6: fill_contour_layers, when a base layer `contours` exists and a listed
\* sub-layer `contours/<N>` (N a positive integer, leading zeros allowed) is empty
\* beforehand: afterwards the sub-layer holds exactly the base features at indices
\* 0, N, 2N, ... in that order, the base `contours` layer is unchanged, and every
\* layer whose name is not of the form contours/<N> with N > 0 (including
\* contours/0 and non-numeric suffixes) is unchanged.
C6_FillContourLayers ==
    (call.fn = "fill_contour_layers" /\ N_contours \in DOMAIN call.collections) =>
        /\ call.result.tag = "Done"
        /\ call.result.ret.tag = "Ok"
        /\ DOMAIN call.result.collections = DOMAIN call.collections
        /\ \A name \in DOMAIN call.collections :
             LET before == call.collections[name]
                 after == call.result.collections[name]
                 listed == \E i \in DOMAIN call.lod_layer_names : call.lod_layer_names[i] = name
             IN  IF IsContoursN(name) /\ IntervalOf(name) > 0
                 THEN (listed /\ before = << >>) =>
                          after = EveryNth(call.collections[N_contours], IntervalOf(name))
                 ELSE after = before

(***************************************************************************)
(* The clip operator on lines, polygons and multi-polygons.                *)
(***************************************************************************)
\* rationals <<n, d>> with d > 0
LeQ(a, b) == a[1] * b[2] <= b[1] * a[2]
MaxQ(S) == CHOOSE a \in S : \A b \in S : LeQ(b, a)
MinQ(S) == CHOOSE a \in S : \A b \in S : LeQ(a, b)

\* the parameters t in [0, 1] for which s + t (e - s) lies in the closed
\* rectangle, for integer coordinates: the interval [t0, t1] unless `empty`
InsideSpan(s, e, rect) ==
    LET x1 == IntOf(s.x)
        y1 == IntOf(s.y)
        dx == IntOf(e.x) - x1
        dy == IntOf(e.y) - y1
        lims == << <<-dx, x1 - IntOf(rect.min.x)>>, <<dx, IntOf(rect.max.x) - x1>>,
                   <<-dy, y1 - IntOf(rect.min.y)>>, <<dy, IntOf(rect.max.y) - y1>> >>
        Frac(k) == IF lims[k][1] > 0 THEN <<lims[k][2], lims[k][1]>>
                   ELSE <<-lims[k][2], -lims[k][1]>>
        t0 == MaxQ({<<0, 1>>} \cup {Frac(k) : k \in {j \in 1..4 : lims[j][1] < 0}})
        t1 == MinQ({<<1, 1>>} \cup {Frac(k) : k \in {j \in 1..4 : lims[j][1] > 0}})
        parallel_out == \E k \in 1..4 : lims[k][1] = 0 /\ lims[k][2] < 0
    IN  [empty |-> parallel_out \/ ~LeQ(t0, t1),
         point |-> ~parallel_out /\ LeQ(t0, t1) /\ LeQ(t1, t0),
         t0 |-> t0, t1 |-> t1]

\* the number v is n / d
IsRatio(v, n, d) ==
    IF v.e >= 0 THEN v.m * 2^v.e * d = n ELSE v.m * d = n * 2^(-v.e)

\* the coordinate c is s + t (e - s)
IsPointAt(c, s, e, t) ==
    /\ IsRatio(c.x, IntOf(s.x) * t[2] + t[1] * (IntOf(e.x) - IntOf(s.x)), t[2])
    /\ IsRatio(c.y, IntOf(s.y) * t[2] + t[1] * (IntOf(e.y) - IntOf(s.y)), t[2])

\* the segment lies on the line through an edge of the rectangle
AlongEdge(s, e, rect) ==
    \/ s.x = e.x /\ s.x \in {rect.min.x, rect.max.x}
    \/ s.y = e.y /\ s.y \in {rect.min.y, rect.max.y}

\* the geometry `out` is the part of the segment s -> e inside the rectangle,
\* oriented like the segment, where that part has a length
IsInsidePart(out, s, e, rect) ==
    LET span == InsideSpan(s, e, rect)
    IN  IF span.empty THEN out = None
        ELSE IF span.point THEN TRUE
        ELSE /\ out.tag = "Some"
             /\ out.val.kind = "Line"
             /\ IsPointAt(out.val.coords[1], s, e, span.t0)
             /\ IsPointAt(out.val.coords[2], s, e, span.t1)

\* C11: clipping a line segment with which no edge of the rectangle is collinear
\* returns the part of the segment that lies inside the rectangle, oriented like
\* the segment (the segment itself when both endpoints are inside, the piece
\* between the contained endpoint and the crossing, or the piece between the two
\* crossings), and None when no part of it lies inside.
C11_ClipLine ==
    (pc = "returned" /\ call.fn = "clip" /\ call.geometry.kind = "Line"
        /\ ~AlongEdge(call.geometry.coords[1], call.geometry.coords[2], call.rect)) =>
        IsInsidePart(call.result, call.geometry.coords[1], call.geometry.coords[2],
                     call.rect)

\* the coordinates of a geometry
CoordsOf(g) ==
    IF g.kind = "MultiPolygon"
    THEN {g.coords[i][j] : <<i, j>> \in
             {q \in (DOMAIN g.coords) \X (1..5) : q[2] \in DOMAIN g.coords[q[1]]}}
    ELSE {g.coords[i] : i \in DOMAIN g.coords}

\* the coordinate lies in the rectangle, boundary included
InRect(c, rect) ==
    /\ IntOf(rect.min.x) <= IntOf(c.x) /\ IntOf(c.x) <= IntOf(rect.max.x)
    /\ IntOf(rect.min.y) <= IntOf(c.y) /\ IntOf(c.y) <= IntOf(rect.max.y)

\* C12: clip containment.  A point, line segment, polygon or multi-polygon whose
\* coordinates all lie inside the rectangle (boundary included) is returned by
\* clip as it is.
C12_ClipContainment ==
    (pc = "returned" /\ call.fn = "clip"
        /\ \A c \in CoordsOf(call.geometry) : InRect(c, call.rect)) =>
        call.result = Some(call.geometry)

\* C13: clip idempotence.  Clipping the result of a clip against the same
\* rectangle again returns that result; clipping None yields None.
C13_ClipIdempotent ==
    (pc = "returned" /\ call.fn = "clip") => call.again = call.result

\* the rectangle common to a rectangular ring and the rectangle, as
\* <<min x, min y, max x, max y>>
CommonRect(ring, rect) ==
    LET xs == {IntOf(ring[i].x) : i \in DOMAIN ring}
        ys == {IntOf(ring[i].y) : i \in DOMAIN ring}
    IN  <<SetMax({SetMin(xs), IntOf(rect.min.x)}), SetMax({SetMin(ys), IntOf(rect.min.y)}),
          SetMin({SetMax(xs), IntOf(rect.max.x)}), SetMin({SetMax(ys), IntOf(rect.max.y)})>>

HasArea(r) == r[1] < r[3] /\ r[2] < r[4]

\* the ring of the rectangle r, from its lower left corner
RingOf(r) ==
    <<Coord(FromInt(r[1]), FromInt(r[2])), Coord(FromInt(r[1]), FromInt(r[4])),
      Coord(FromInt(r[3]), FromInt(r[4])), Coord(FromInt(r[3]), FromInt(r[2])),
      Coord(FromInt(r[1]), FromInt(r[2]))>>

\* the clipped constituents that are not empty, in constituent order
RECURSIVE NonEmptyParts(_, _)
NonEmptyParts(rings, rect) ==
    IF rings = << >> THEN << >>
    ELSE (IF HasArea(CommonRect(Head(rings), rect))
          THEN <<RingOf(CommonRect(Head(rings), rect))>>
          ELSE << >>) \o NonEmptyParts(Tail(rings), rect)

\* C14: clipping a multi-polygon returns the multi-polygon of the non-empty
\* clipped constituents in constituent order, and None when every constituent
\* clips to empty; a multi-polygon without polygons is never returned.
C14_ClipMultiPolygon ==
    (pc = "returned" /\ call.fn = "clip" /\ call.geometry.kind = "MultiPolygon") =>
        LET parts == NonEmptyParts(call.geometry.coords, call.rect)
        IN  /\ call.result = IF parts = << >> THEN None ELSE Some(MultiPolygon(parts))
            /\ call.result # Some(MultiPolygon(<< >>))

(***************************************************************************)
(* remove_empty and simplify.                                              *)
(***************************************************************************)
\* the length of the segment a-b, an integer for the segments used here
SegmentLength(a, b) ==
    LET dx == IntOf(b.x) - IntOf(a.x)
        dy == IntOf(b.y) - IntOf(a.y)
    IN  CHOOSE n \in 0..(Abs(dx) + Abs(dy)) : n * n = dx * dx + dy * dy

RECURSIVE PathLength(_)
PathLength(cs) ==
    IF Len(cs) < 2 THEN 0 ELSE SegmentLength(cs[1], cs[2]) + PathLength(Tail(cs))

\* twice the area enclosed by a closed ring (shoelace formula)
RECURSIVE Shoelace(_)
Shoelace(ring) ==
    IF Len(ring) < 2 THEN 0
    ELSE IntOf(ring[1].x) * IntOf(ring[2].y) - IntOf(ring[2].x) * IntOf(ring[1].y)
             + Shoelace(Tail(ring))

RECURSIVE TwiceAreas(_)
TwiceAreas(rings) ==
    IF rings = << >> THEN 0 ELSE Abs(Shoelace(Head(rings))) + TwiceAreas(Tail(rings))

SizedKinds == {"Point", "MultiPoint", "Line", "LineString", "Polygon", "MultiPolygon"}

\* what the claim says is left in the collection
IsKept(g, line_limit, area_limit) ==
    \/ g.kind \in {"Point", "MultiPoint"}
    \/ g.kind \in {"Line", "LineString"} /\ PathLength(g.coords) > IntOf(line_limit)
    \/ g.kind = "Polygon" /\ Abs(Shoelace(g.coords)) > 2 * IntOf(area_limit)
    \/ g.kind = "MultiPolygon" /\ TwiceAreas(g.coords) > 2 * IntOf(area_limit)

Occurrences(fc, f) == Cardinality({i \in DOMAIN fc : fc[i] = f})

\* C15: remove_empty on a collection of points, multi-points, lines, line
\* strings, polygons and multi-polygons leaves, as a multiset, exactly the points
\* and multi-points, the lines and line strings longer than line_limit and the
\* polygons and multi-polygons of unsigned area above area_limit: each of them
\* once, and nothing else.
C15_RemoveEmpty ==
    (pc = "returned" /\ call.fn = "remove_empty"
        /\ \A i \in DOMAIN call.fc : call.fc[i].geometry.kind \in SizedKinds) =>
        /\ call.result.tag = "Done"
        /\ \A i \in DOMAIN call.fc :
             Occurrences(call.result.fc, call.fc[i]) =
                 IF IsKept(call.fc[i].geometry, call.line_limit, call.area_limit)
                 THEN 1 ELSE 0
        /\ \A j \in DOMAIN call.result.fc : \E i \in DOMAIN call.fc :
             call.result.fc[j] = call.fc[i]

\* a dropped first feature has been replaced by the last one
C15_Witness ==
    /\ pc = "returned"
    /\ call.fn = "remove_empty"
    /\ Len(call.fc) = 3
    /\ \A i \in DOMAIN call.fc : call.fc[i].geometry.kind \in SizedKinds
    /\ call.fc[1].geometry.kind = "LineString"
    /\ call.fc[2].geometry.kind = "Polygon"
    /\ call.result.tag = "Done"
    /\ call.result.fc = <<call.fc[3], call.fc[2]>>

SimplifiedKinds ==
    {"LineString", "Polygon", "MultiLineString", "MultiPolygon", "GeometryCollection"}

C16_SimplifyPhaseFrame ==
    [][pc = "simplify" =>
          /\ is_max_lod(projection) => projection'.collections = projection.collections
          /\ \A name \in DOMAIN projection.collections :
                starts_with(name, LocationLayer(<< >>)) =>
                    /\ name \in DOMAIN projection'.collections
                    /\ projection'.collections[name] = projection.collections[name]]_vars

\* below max_lod the phase has shortened the `water` layer, which it had left
\* alone at max_lod
C16_Witness ==
    /\ pc = "fill"
    /\ lod < args.max_lod
    /\ N_water \in DOMAIN projection.collections
    /\ Len(projection.collections[N_water]) = 1
    /\ Len(constructed[N_water]) = 2
    /\ history[1] = <<"simplify", args.max_lod>>

(***************************************************************************)
(* build_mounts.                                                           *)
(***************************************************************************)
\* the elevation of the cell (col, row), an integer in the rasters used here
ElevationAt(dem, col, row) == IntOf(dem.data[row * dem.columns + col + 1])

\* the inner cells above sea level that are higher than all 8 neighbours
Peaks(dem) ==
    {p \in (1..(dem.columns - 2)) \X (1..(dem.rows - 2)) :
        /\ ElevationAt(dem, p[1], p[2]) > 0
        /\ \A dc \in {-1, 0, 1}, dr \in {-1, 0, 1} :
              <<dc, dr>> # <<0, 0>> =>
                  ElevationAt(dem, p[1] + dc, p[2] + dr) < ElevationAt(dem, p[1], p[2])}

\* the feature f is a point in the column and of the corrected elevation of
\* the cell p
IsMountOf(f, p, dem, elevation_offset) ==
    /\ f.geometry.kind = "Point"
    /\ f.geometry.coords[1].x = FromInt(IntOf(dem.left) + p[1] * IntOf(dem.cell_size))
    /\ Twice(f.properties.elevation) =
           2 * ElevationAt(dem, p[1], p[2]) + Twice(elevation_offset)

\* C18: build_mounts inserts the layer `mounts`, which holds exactly one point
\* feature for each inner cell whose elevation is above 0 and strictly above
\* that of all 8 neighbours, and no feature for any other cell.
C18_BuildMountsPeaks ==
    (pc = "returned" /\ call.fn = "build_mounts") =>
        /\ call.result.tag = "Done"
        /\ N_mounts \in DOMAIN call.result.collections
        /\ LET mounts == call.result.collections[N_mounts]
           IN  /\ Len(mounts) = Cardinality(Peaks(call.dem))
               /\ \A p \in Peaks(call.dem) :
                     Cardinality({i \in DOMAIN mounts :
                                     IsMountOf(mounts[i], p, call.dem,
                                               call.elevation_offset)})
                         = Cardinality({q \in Peaks(call.dem) :
                                           /\ q[1] = p[1]
                                           /\ ElevationAt(call.dem, q[1], q[2]) =
                                                  ElevationAt(call.dem, p[1], p[2])})

\* the number written in a text
TextValue(t) == IF Head(t) = "-" THEN -DecimalValue(Tail(t)) ELSE DecimalValue(t)

\* C19: the point feature of the peak cell (col, row) lies at the cell's world
\* position (x(col), y(row)), its property elevation is the cell's elevation plus
\* the offset and its property text is that number rounded to an integer.
C19_MountFeature ==
    (pc = "returned" /\ call.fn = "build_mounts" /\ call.result.tag = "Done") =>
        \A p \in Peaks(call.dem) :
            \E i \in DOMAIN call.result.collections[N_mounts] :
                LET f == call.result.collections[N_mounts][i]
                IN  /\ IsMountOf(f, p, call.dem, call.elevation_offset)
                    /\ f.geometry.coords[1].y =
                           FromInt(IntOf(call.dem.bottom)
                                       + (call.dem.rows - p[2]) * IntOf(call.dem.cell_size))
                    /\ Abs(2 * TextValue(f.properties.text)
                               - Twice(f.properties.elevation)) <= 1

\* the samples of the raster that are not its no-data value
Valid(dem) == {i \in DOMAIN dem.data : dem.data[i] # dem.no_data_value}

\* every valid sample is below 2^63 in magnitude
WithinI64(dem) == \A i \in Valid(dem) : BitLength(Abs(dem.data[i].m)) + dem.data[i].e < 64

\* twice the lowest and twice the highest valid sample
TwiceMin(dem) ==
    CHOOSE v \in {Twice(dem.data[i]) : i \in Valid(dem)} :
        \A j \in Valid(dem) : v <= Twice(dem.data[j])
TwiceMax(dem) ==
    CHOOSE v \in {Twice(dem.data[i]) : i \in Valid(dem)} :
        \A j \in Valid(dem) : v >= Twice(dem.data[j])

Floor2(v) == v \div 2
Ceil2(v) == -((-v) \div 2)
Trunc2(v) == IF v < 0 THEN -((-v) \div 2) ELSE v \div 2

\* the layer holds exactly one contour for each integer of lo..hi
OnePerThreshold(layer, lo, hi) ==
    /\ Len(layer) = hi - lo + 1
    /\ {layer[i].geometry.threshold : i \in DOMAIN layer} = lo..hi

\* the four sub-layers are present and empty
SubLayersEmpty(c) ==
    \A name \in {N_contours_slash \o <<"0", "5">>, N_contours_slash \o <<"1", "0">>,
                  N_contours_slash \o <<"5", "0">>, N_contours_slash \o <<"1", "0", "0">>} :
        name \in DOMAIN c /\ c[name] = << >>

C21_CalcMaxLod ==
    (pc = "returned" /\ call.fn = "calc_max_lod" /\ call.tile_size > 0) =>
        /\ call.result.tag = "Ok"
        /\ call.tile_size * 2^call.result.val >= call.world_size * 10
        /\ call.result.val >= 0
        /\ call.result.val > 0 =>
              call.tile_size * 2^(call.result.val - 1) < call.world_size * 10
        /\ call.larger.tag = "Ok" /\ call.larger.val >= call.result.val
        /\ call.tile_size = 4096 =>
              /\ call.world_size = 256 => call.result.val = 0
              /\ call.world_size = 512 => call.result.val = 1
              /\ call.world_size = 1024 => call.result.val = 2
              /\ call.world_size = 2048 => call.result.val = 3

\* the call for world size 2048 and tile size 4096 has returned 3
C21_Witness ==
    /\ pc = "returned"
    /\ call.fn = "calc_max_lod"
    /\ call.world_size = 2048
    /\ call.tile_size = 4096
    /\ call.result = Ok(3)

(***************************************************************************)
(* C22.  Tile failures of a LOD.                                           *)
(***************************************************************************)
TileColumns(z) == 0..(2^z - 1)

\* a tile of the LOD that is not on disk after the tile phase
TileMissing(z) ==
    \E col \in TileColumns(z), row \in TileColumns(z) :
        TilePath(output_path \o <<z, col>>, row) \notin DOMAIN fs.files

\* the columns whose tiles nothing in the initial tree keeps from being written
WritableColumns(z) ==
    IF output_path \notin args.fs.dirs \/ (output_path \o <<z>>) \in DOMAIN args.fs.files
    THEN {}
    ELSE {col \in TileColumns(z) : (output_path \o <<z, col>>) \notin DOMAIN args.fs.files}

\* C22: when a tile of a LOD could not be written, the command has returned
\* an error and every tile of the LOD that could be written has been written
\* (the failure of one tile does not keep the others from being attempted).
C22_TileFailureSurfaced ==
    (pc = "returned" /\ call.fn = "build_vector_tiles" /\ TileMissing(call.lod))
        => /\ call.result.tag = "Err"
           /\ \A col \in WritableColumns(call.lod), row \in TileColumns(call.lod) :
                  TilePath(output_path \o <<call.lod, col>>, row) \in DOMAIN fs.files

(***************************************************************************)
(* C23.  Tile determinism.                                                 *)
(***************************************************************************)
\* C23: the tile create_tile returns for a registry is the same whatever the
\* order in which the registry yields its layers: a second run on the same
\* inputs, with any other iteration order, encodes the same tile.
C23_TileDeterminism ==
    (pc = "returned" /\ call.fn = "create_tile")
        => \A k \in KeyOrders(DOMAIN call.collections) :
               create_tile(call.col, call.row, call.collections, k) = call.result

(***************************************************************************)
(* C24.  load_geo_jsons.                                                   *)
(***************************************************************************)
IsGeoJsonGz(path) ==
    /\ Len(path) >= 2
    /\ path[Len(path) - 1] = ".geojson"
    /\ path[Len(path)] = ".gz"

SuffixStripped(path) == SubSeq(path, 1, Len(path) - 2)

\* the positions of the .geojson.gz files in a listing
GeoJsonFilesOf(listing) == {i \in DOMAIN listing : IsGeoJsonGz(listing[i].path)}

FirstOf(S) == CHOOSE i \in S : \A j \in S : i <= j

\* the features of a file's content that have a geometry
RECURSIVE LoadedFeatures(_)
LoadedFeatures(fs_) ==
    IF fs_ = << >> THEN << >>
    ELSE IF Head(fs_).geometry.tag = "None" THEN LoadedFeatures(Tail(fs_))
    ELSE <<Feature(Head(fs_).geometry.val, Head(fs_).properties)>> \o LoadedFeatures(Tail(fs_))

\* C24: when a .geojson.gz file cannot be read, load_geo_jsons returns the
\* error of the first such file and leaves the registry as it was; when all
\* can be read, it returns Ok and the registry holds, next to the layers it
\* had, one layer per file under the file's relative path without the
\* suffix .geojson.gz, with the file's features.
C24_LoadGeoJsons ==
    (pc = "returned" /\ call.fn = "load_geo_jsons")
        => LET files == GeoJsonFilesOf(call.listing)
               failed == {i \in files : call.listing[i].content.tag = "Err"}
               after == call.result.collections
           IN  IF failed # {}
               THEN /\ call.result.ret = call.listing[FirstOf(failed)].content
                    /\ after = call.collections
               ELSE /\ call.result.ret = Ok("unit")
                    /\ DOMAIN after
                         = DOMAIN call.collections
                             \cup {SuffixStripped(call.listing[i].path) : i \in files}
                    /\ \A i \in files :
                          after[SuffixStripped(call.listing[i].path)]
                              = LoadedFeatures(call.listing[i].content.val)
                    /\ \A k \in DOMAIN call.collections :
                          (\A i \in files : SuffixStripped(call.listing[i].path) # k)
                              => after[k] = call.collections[k]

(***************************************************************************)
(* C25.  A failing decrease_lod.                                           *)
(***************************************************************************)
\* C25: a decrease_lod call on a projector at LOD 0 fails and leaves the
\* projector as it was: current_lod stays 0 and the registry, with every
\* coordinate of every feature, is the one before the call.
C25_FailedDecreaseKeeps ==
    [][(pc = "proj" /\ projection.current_lod = 0 /\ calls'.failed = calls.failed + 1)
          => /\ projection_lod'.tag = "Err"
             /\ projection'.current_lod = 0
             /\ projection'.collections = projection.collections]_vars

(***************************************************************************)
(* C26.  The contour sub-layers across the LOD loop.                       *)
(***************************************************************************)
\* the sub-layers contours/<N>, N > 0, of the registry that are visible at z
VisibleSubLayers(z) ==
    {name \in DOMAIN projection.collections :
        /\ IsContoursN(name)
        /\ IntervalOf(name) > 0
        /\ \E i \in DOMAIN args.layer_settings :
              LET s == args.layer_settings[i]
              IN  /\ s.layer = name
                  /\ (s.minzoom.tag = "Some" => s.minzoom.val <= z)
                  /\ (s.maxzoom.tag = "Some" => s.maxzoom.val >= z)}

\* C26: right after the contour fill of any LOD of the loop, every visible
\* sub-layer contours/<N> is exactly the sequence of the features at the
\* indices 0, N, 2N, ... of the base layer as it is at that LOD; what an
\* earlier LOD filled in is not kept.
C26_FillPerLod ==
    (pc = "tiles" /\ fill_result = Ok("unit"))
        => \A name \in VisibleSubLayers(lod) :
               projection.collections[name]
                   = EveryNth(projection.collections[N_contours], IntervalOf(name))

(***************************************************************************)
(* C27.  The contour interval across the LOD loop.                         *)
(***************************************************************************)
\* C27: for a base layer that initially holds one contour per meter in
\* ascending order (the feature at index i carries id = i), every feature
\* that a fill of the loop appends to a sub-layer contours/<N> has an
\* initial index that is a multiple of N.
C27_ContourInterval ==
    [][(pc = "fill" /\ pc' = "tiles")
          => \A name \in DOMAIN projection.collections :
                (IsContoursN(name) /\ IntervalOf(name) > 0)
                    => LET old == projection.collections[name]
                           new == projection'.collections[name]
                       IN  \A i \in (Len(old) + 1)..Len(new) :
                              new[i].properties.id % IntervalOf(name) = 0]_vars

(***************************************************************************)
(* C28.  The simplification phase.                                         *)
(***************************************************************************)
\* C28: whatever the registry and max_lod, the simplification phase of an
\* iteration of the LOD loop completes and hands over to the contour fill;
\* it never aborts in an unimplemented operator.
C28_SimplifyCompletes ==
    [][pc = "simplify" => pc' = "fill"]_vars

(***************************************************************************)
(* C29.  Tile-local coordinates.                                           *)
(***************************************************************************)
\* every coordinate of an emitted geometry
CoordinatesOf(g) ==
    IF g.kind \in {"MultiPolygon", "MultiLineString"}
    THEN UNION {{g.coords[i][j] : j \in DOMAIN g.coords[i]} : i \in DOMAIN g.coords}
    ELSE {g.coords[i] : i \in DOMAIN g.coords}

\* the features of every layer of a tile
EmittedFeatures(tile) ==
    UNION {{tile.layers[i].features[j] : j \in DOMAIN tile.layers[i].features} :
              i \in DOMAIN tile.layers}

\* C29: every coordinate of every feature of a tile that create_tile returns
\* is a pair of integers x, y with 0 <= x <= 4096 and 0 <= y <= 4096,
\* whatever the tile's column and row.
C29_TileLocalCoordinates ==
    (pc = "returned" /\ call.fn = "create_tile")
        => \A f \in EmittedFeatures(call.result.val) :
              \A c \in CoordinatesOf(f.geometry) :
                 /\ c.x \in 0..4096
                 /\ c.y \in 0..4096

\* a tile of column 1 with a line that was cut at the tile's left edge and
\* ends 2048 units into the tile
C29_Witness ==
    /\ pc = "returned"
    /\ call.fn = "create_tile"
    /\ call.col = 1
    /\ \E f \in EmittedFeatures(call.result.val) :
          /\ f.geometry.kind = "Line"
          /\ \E c, d \in CoordinatesOf(f.geometry) : c.x = 0 /\ d.x = 2048

(***************************************************************************)
(* C30.  The simplification tasks.                                         *)
(***************************************************************************)
\* the layers of `order` processed one after another, each by the whole
\* closure body, on the registry
RECURSIVE OneAfterAnother(_, _, _)
OneAfterAnother(collections, order, max_lod_now) ==
    IF order = << >> THEN collections
    ELSE OneAfterAnother(
             [collections EXCEPT ![Head(order)] =
                 SimplifyLayer(Head(order), collections[Head(order)], max_lod_now).fc],
             Tail(order), max_lod_now)

\* C30: when the simplification phase has ended, however the tasks of the
\* layers were interleaved, the registry is the one that processing the
\* layers one after another gives, in whatever order.
C30_TasksIndependent ==
    pc = "joined"
        => \A order \in KeyOrders(DOMAIN args.collections) :
               projection.collections
                   = OneAfterAnother(args.collections, order, args.max_lod_now)

\* the phase has ended below the maximal LOD for three layers, two of which
\* have lost features
C30_Witness ==
    /\ pc = "joined"
    /\ ~args.max_lod_now
    /\ DOMAIN projection.collections = {N_water, N_foo, N_railway}
    /\ Len(projection.collections[N_water]) < Len(args.collections[N_water])
    /\ Len(projection.collections[N_foo]) < Len(args.collections[N_foo])
====
